---- MODULE Spec2Model ----
(***************************************************************************)
(* A model of the two file-backed tool servers of the repository and of    *)
(* its configuration module:                                               *)
(*   scripts/mcp-servers/mcp_mail.py       the agent mail store            *)
(*   scripts/mcp-servers/mcp_processes.py  the background process manager  *)
(*   src/config.py                         class Config                    *)
(*                                                                         *)
(* The three are separate programs that share no state, so each has        *)
(* specifications of its own over its own variables:                       *)
(*   MailSpec         the mail server;                                     *)
(*   MailFaultSpec    with a filesystem that refuses removals and writes;  *)
(*   MailCorruptSpec  with message files that get damaged;                 *)
(*   ProcSpec         the process server and the groups it spawns;         *)
(*   ProcReuseSpec    with an OS that reuses pids;                         *)
(*   ProcFaultSpec    with a filesystem that refuses a metadata write;     *)
(*   ProcClockSpec    with grace windows that go by;                       *)
(*   ConcSpec         mail_send and process_start calls that overlap;      *)
(*   ConfigSpec       the configuration, loaded from an environment.       *)
(* A file holds the JSON object json.dump wrote into it; the model keeps   *)
(* that object as a record.  uuid.uuid4() is modelled as a fresh           *)
(* identifier: the n-th identifier a server issues is n.                   *)
(***************************************************************************)
EXTENDS Integers, Sequences, FiniteSets, TLC

VARIABLES
    now,        \* the latest reading of the UTC clock, in clock ticks
    mailFiles,  \* MAIL_DIR: message id -> content of msg_<id>.json
    mailIssued, \* how many message ids generate_message_id has issued
    mailRet,    \* the mail server's latest call: [op, args, val]
    procFiles,  \* PROCESS_DIR: process id -> content of proc_<id>.json
    logFiles,   \* LOG_DIR: process id -> lines of <id>.log
    procIssued, \* how many process ids generate_process_id has issued
    osProcs,    \* the OS process table: pid -> what the pid stands for
    procPc,     \* where the process server is: idle, or inside time.sleep
    sigLog,     \* the signals the current (or latest) process_stop sent
    procRet,    \* the process server's latest finished call: [op, args, val]
    calls,      \* the calls of tools that run at the same time, per caller
    environ,    \* os.environ when config.py is imported: name -> string
    config,     \* the attributes of class Config: name -> value, once loaded
    cfgRet,     \* the latest operation on the configuration and its result
    coreRet     \* the latest call of a function of example/core.py and its result

mailVars == <<mailFiles, mailIssued, mailRet>>

procVars == <<procFiles, logFiles, procIssued, osProcs, procPc, sigLog, procRet>>

cfgVars == <<environ, config, cfgRet>>

coreVars == <<coreRet>>

otherVars == <<calls, cfgVars, coreVars>>

vars == <<now, mailFiles, mailIssued, mailRet,
          procFiles, logFiles, procIssued, osProcs, procPc, sigLog, procRet,
          calls, environ, config, cfgRet, coreRet>>

(***************************************************************************)
(* Bounds of the exploration.                                              *)
(***************************************************************************)
MaxMsgs == 2        \* mail_send calls explored
MaxClock == 2       \* the clock is explored up to this tick
TicksPerSec == 2    \* clock ticks per second (the code's clock has 10^6)
MaxProcs == 2       \* process_start calls explored (process_restart included)
MaxLogLines == 1    \* lines the processes write to their logs, all in all
MaxKidGroups == 1   \* process groups that have children at one time
MaxReused == 1      \* pids that stand for an unrelated process at one time
MaxSleeps == 1      \* grace windows (process_stop calls that sleep) explored
ClockSlack == 1     \* ticks a sleep may take longer than the grace window
MaxCallers == 2     \* callers whose mail_send and process_start calls overlap
MaxEnvVars == 3     \* environment variables set when the configuration loads
MaxLines == 3       \* lines one process writes to its log (ProcLogsSpec)
MaxInt == 6         \* the arguments of add and divide are in -MaxInt..MaxInt

(***************************************************************************)
(* Inputs.                                                                 *)
(***************************************************************************)
Agents == {"a1", "a2", "a3"}

MailInputs ==
    { [from |-> "a1", to |-> <<"a2">>,       subject |-> "s1", body |-> "b1"],
      [from |-> "a2", to |-> <<"a1", "a1">>, subject |-> "s2", body |-> "b2"],
      [from |-> "a1", to |-> <<"a1", "a2">>, subject |-> "s2", body |-> "b1"],
      [from |-> "a2", to |-> <<>>,           subject |-> "s1", body |-> "b2"] }

MsgIds == 1..(MaxMsgs + 1)

(***************************************************************************)
(* datetime.utcnow().isoformat() + "Z".  The date and time of day are      *)
(* fixed-width, zero-padded fields, so as a string they compare as the     *)
(* count of seconds does; one element stands for them.  isoformat()        *)
(* appends "." and six digits of microseconds only when the microsecond    *)
(* field is not zero.  Characters are their ASCII codes.                   *)
(***************************************************************************)
CharDot == 46
CharZ == 90

IsoFormat(t) ==
    <<t \div TicksPerSec>>
        \o (IF t % TicksPerSec = 0 THEN <<>> ELSE <<CharDot, t % TicksPerSec>>)
        \o <<CharZ>>

(* Python's str < str: lexicographic by code point, a proper prefix first. *)
RECURSIVE StrLess(_, _)
StrLess(a, b) ==
    IF b = <<>> THEN FALSE
    ELSE IF a = <<>> THEN TRUE
    ELSE IF Head(a) # Head(b) THEN Head(a) < Head(b)
    ELSE StrLess(Tail(a), Tail(b))

(***************************************************************************)
(* list.sort(key=..., reverse=True): a stable sort, so entries with equal  *)
(* keys keep the order they had.  The entries are [k |-> key, v |-> item]. *)
(***************************************************************************)
RECURSIVE InsertDesc(_, _)
InsertDesc(s, x) ==
    IF s = <<>> THEN <<x>>
    ELSE IF StrLess(Head(s).k, x.k) THEN <<x>> \o s
    ELSE <<Head(s)>> \o InsertDesc(Tail(s), x)

RECURSIVE SortDesc(_)
SortDesc(s) ==
    IF s = <<>> THEN <<>>
    ELSE InsertDesc(SortDesc(SubSeq(s, 1, Len(s) - 1)), s[Len(s)])

Range(s) == {s[i] : i \in 1..Len(s)}

(* Path.glob yields the directory's files in an order the OS chooses. *)
GlobOrders(S) ==
    {f \in [1..Cardinality(S) -> S] : \A i, j \in 1..Cardinality(S) : f[i] = f[j] => i = j}

(***************************************************************************)
(* The mail server (mcp_mail.py).                                          *)
(***************************************************************************)
NotFoundMsg(id) == [error |-> <<"Message", id, "not found">>]

save_message(files, message) ==
    [i \in DOMAIN files \cup {message.id} |-> IF i = message.id THEN message ELSE files[i]]

(***************************************************************************)
(* What a file of the directory holds: a JSON object, modelled as the      *)
(* record of its keys, or Unparseable, anything json.load rejects with     *)
(* JSONDecodeError or open() with IOError.  A complete message has the     *)
(* seven keys of MessageKeys (lines 88-95).                                *)
(***************************************************************************)
Unparseable == [unparseable |-> TRUE]

Parses(content) == "unparseable" \notin DOMAIN content

MessageKeys == {"id", "from", "to", "subject", "body", "timestamp", "read"}

(* dict.get(key, default). *)
Get(d, key, default) == IF key \in DOMAIN d THEN d[key] ELSE default

(* None is modelled as the empty record <<>>: the file does not exist, or
   the except branch of lines 49-50 was taken. *)
load_message_Draft(files, id) ==
    IF id \in DOMAIN files /\ Parses(files[id]) THEN files[id]
    ELSE [id |-> id, read |-> FALSE]

load_message(files, id) ==
    IF id \in DOMAIN files /\ Parses(files[id]) THEN files[id] ELSE <<>>

(* The loop of lines 59-65 keeps what json.load returned and is truthy; the
   sort key of line 67 is x.get("timestamp", ""). *)
list_messages(files, order) ==
    LET Loads(id) == Parses(files[id]) /\ files[id] # <<>>
        kept == SelectSeq(order, Loads)
        loaded == [i \in 1..Len(kept) |->
                      [k |-> Get(files[kept[i]], "timestamp", <<>>), v |-> files[kept[i]]]]
        sorted == SortDesc(loaded)
    IN  [i \in 1..Len(sorted) |-> sorted[i].v]

(* message["read"] = True (line 147). *)
MarkRead_KeepsFlag(message) == message

MarkRead_DropsBody(message) == [message EXCEPT !.read = TRUE, !.body = ""]

MarkRead(message) == [message EXCEPT !.read = TRUE]

(* message_path.unlink() (line 169). *)
unlink_Nothing(files, id) == files

unlink(files, id) == [i \in DOMAIN files \ {id} |-> files[i]]

(* to_agent in message.get("to", []) (line 117). *)
Addressed_FirstOnly(to_agent, message) ==
    message.to # <<>> /\ to_agent = Head(message.to)

Addressed(to_agent, message) == to_agent \in Range(Get(message, "to", <<>>))

(* message["id"], message["from"], ...: the keys the summaries subscript
   (lines 119-125 and 187-194); a missing one raises KeyError. *)
InboxKeys == {"id", "from", "subject", "timestamp"}

ListKeys == {"id", "from", "to", "subject", "timestamp"}

InboxSummary(m) ==
    [id |-> m.id, from |-> m.from, subject |-> m.subject,
     timestamp |-> m.timestamp, read |-> Get(m, "read", FALSE)]

ListSummary(m) ==
    [id |-> m.id, from |-> m.from, to |-> m.to, subject |-> m.subject,
     timestamp |-> m.timestamp, read |-> Get(m, "read", FALSE)]

(* str(uuid.uuid4()): an identifier no earlier call got. *)
generate_message_id_Same(issued) == 1

generate_message_id(issued) == issued + 1

MailSend(in) ==
    /\ mailIssued < MaxMsgs
    /\ \E t \in now..MaxClock :
        LET message_id == generate_message_id(mailIssued)
            message == [id |-> message_id, from |-> in.from, to |-> in.to,
                        subject |-> in.subject, body |-> in.body,
                        timestamp |-> IsoFormat(t), read |-> FALSE]
        IN  /\ now' = t
            /\ mailIssued' = mailIssued + 1
            /\ mailFiles' = save_message(mailFiles, message)
            /\ mailRet' = [op |-> "mail_send", args |-> in, val |-> message_id]
            /\ UNCHANGED <<procVars, otherVars>>

MailInbox(to_agent) ==
    /\ \E order \in GlobOrders(DOMAIN mailFiles) :
        LET all_messages == list_messages(mailFiles, order)
            ToAgent(m) == Addressed(to_agent, m)
            inbox == SelectSeq(all_messages, ToAgent)
        IN  IF \A i \in 1..Len(inbox) : InboxKeys \subseteq DOMAIN inbox[i]
            THEN mailRet' = [op |-> "mail_inbox", args |-> to_agent,
                             val |-> [i \in 1..Len(inbox) |-> InboxSummary(inbox[i])]]
            ELSE mailRet' = [op |-> "mail_inbox", args |-> to_agent,
                             raised |-> "KeyError"]
    /\ UNCHANGED <<now, mailFiles, mailIssued>>
    /\ UNCHANGED <<procVars, otherVars>>

MailRead(message_id) ==
    LET message == load_message(mailFiles, message_id)
    IN  /\ IF message = <<>>
           THEN /\ mailRet' = [op |-> "mail_read", args |-> message_id,
                               val |-> NotFoundMsg(message_id)]
                /\ UNCHANGED mailFiles
           ELSE LET marked == MarkRead(message)
                IN  /\ mailFiles' = save_message(mailFiles, marked)
                    /\ mailRet' = [op |-> "mail_read", args |-> message_id, val |-> marked]
        /\ UNCHANGED <<now, mailIssued>>
        /\ UNCHANGED <<procVars, otherVars>>

MailDelete(message_id) ==
    /\ IF message_id \notin DOMAIN mailFiles
       THEN /\ mailRet' = [op |-> "mail_delete", args |-> message_id, val |-> FALSE]
            /\ UNCHANGED mailFiles
       ELSE /\ mailFiles' = unlink(mailFiles, message_id)
            /\ mailRet' = [op |-> "mail_delete", args |-> message_id, val |-> TRUE]
    /\ UNCHANGED <<now, mailIssued>>
    /\ UNCHANGED <<procVars, otherVars>>

MailListAll ==
    /\ \E order \in GlobOrders(DOMAIN mailFiles) :
        LET messages == list_messages(mailFiles, order)
        IN  IF \A i \in 1..Len(messages) : ListKeys \subseteq DOMAIN messages[i]
            THEN mailRet' = [op |-> "mail_list_all", args |-> <<>>,
                             val |-> [i \in 1..Len(messages) |-> ListSummary(messages[i])]]
            ELSE mailRet' = [op |-> "mail_list_all", args |-> <<>>,
                             raised |-> "KeyError"]
    /\ UNCHANGED <<now, mailFiles, mailIssued>>
    /\ UNCHANGED <<procVars, otherVars>>

MailInit ==
    /\ mailFiles = <<>>
    /\ mailIssued = 0
    /\ mailRet = [op |-> "none", args |-> <<>>, val |-> <<>>]

(* The OSError branch of mail_delete (lines 171-172): the filesystem refuses
   the removal.  Part of MailFaultSpec only: MailSpec is the server on a
   directory it may write and remove in. *)
MailDeleteRefused(message_id) ==
    /\ message_id \in DOMAIN mailFiles
    /\ mailRet' = [op |-> "mail_delete", args |-> message_id, val |-> FALSE]
    /\ UNCHANGED <<now, mailFiles, mailIssued>>
    /\ UNCHANGED <<procVars, otherVars>>

(* mail_send when save_message raises (lines 36-38, 97): the id and the
   timestamp have been made, the file cannot be written, and nothing in
   mcp__mail_send or save_message catches the OSError: the call ends with
   the exception.  Part of MailFaultSpec only. *)
MailSendWriteFails(in) ==
    /\ mailIssued < MaxMsgs
    /\ \E t \in now..MaxClock :
        /\ now' = t
        /\ mailIssued' = mailIssued + 1
        /\ mailRet' = [op |-> "mail_send", args |-> in, raised |-> "OSError"]
    /\ UNCHANGED mailFiles
    /\ UNCHANGED <<procVars, otherVars>>

(***************************************************************************)
(* Something other than the server damages a message file: what is left    *)
(* does not parse, or parses to an object that lacks some of the keys.     *)
(* Part of MailCorruptSpec only.                                           *)
(***************************************************************************)
LostKeys == {{"id"}, {"timestamp", "read"}, MessageKeys \ {"from"}}

Damaged(message) ==
    {Unparseable} \cup
    {[k \in DOMAIN message \ lost |-> message[k]] : lost \in LostKeys}

FileCorrupted(message_id) ==
    /\ message_id \in DOMAIN mailFiles
    /\ DOMAIN mailFiles[message_id] = MessageKeys
    /\ \E content \in Damaged(mailFiles[message_id]) :
            mailFiles' = [mailFiles EXCEPT ![message_id] = content]
    /\ UNCHANGED <<now, mailIssued, mailRet>>
    /\ UNCHANGED <<procVars, otherVars>>

MailNext ==
    \/ \E in \in MailInputs : MailSend(in)
    \/ \E a \in Agents : MailInbox(a)
    \/ \E id \in MsgIds : MailRead(id)
    \/ \E id \in MsgIds : MailDelete(id)
    \/ MailListAll

(***************************************************************************)
(* The process server (mcp_processes.py) and the OS it talks to.           *)
(*                                                                         *)
(* osProcs[pid] tells what the pid of a process the server spawned stands  *)
(* for now.  leader is                                                     *)
(*   "alive"    the spawned shell, leader of its own group, is running;    *)
(*   "zombie"   it has terminated and its parent, the server, has not      *)
(*              waited for it: the pid is still in the process table, so   *)
(*              os.kill(pid, 0), os.getpgid(pid) and os.killpg succeed;    *)
(*   "gone"     it has been waited for and the pid is free: the server     *)
(*              waits for its children only inside subprocess.Popen (the   *)
(*              library reaps terminated children at the start of every    *)
(*              Popen call), that is in the next process_start;            *)
(*   "stranger" the free pid has been given to an unrelated process that   *)
(*              the server's user may signal;                              *)
(*   "denied"   the same, a process of another user: signalling it fails   *)
(*              with PermissionError, a subclass of OSError.               *)
(* kids tells whether a process of the group other than the leader (a      *)
(* child the command spawned) is running, and log names the log file the   *)
(* group writes to.                                                        *)
(***************************************************************************)
NoPid == 0
GraceSeconds == 2

GraceTicks == GraceSeconds * TicksPerSec

ProcMaxClock == MaxSleeps * (GraceTicks + ClockSlack)

ProcInputs ==
    { [command |-> "c1", cwd |-> "/w1", name |-> "n1", owner |-> "o1"],
      [command |-> "c2", cwd |-> "/w2", name |-> "n2", owner |-> "o2"] }

(* owner: Optional[str] = None; None and "" both mean no filter. *)
OwnerArgs == {"", "o1"}

LinesArgs == {0, 1}

ProcIds == 0..(MaxProcs + 1)

Pids == 1..Len(osProcs)

(* A record that was in PROCESS_DIR before the server started, without a pid. *)
LegacyRecord ==
    [id |-> 0, name |-> "n0", owner |-> "o1", command |-> "c0", cwd |-> "/w0",
     pid |-> NoPid, status |-> "running", started_at |-> IsoFormat(0),
     stopped_at |-> <<>>, log_file |-> 0]

Idle == [at |-> "idle"]

(* The string of a process identifier, and the string process_start returns
   when the spawn fails: "Error starting process: ...". *)
IdStr(process_id) == <<"id", process_id>>

ErrorStr == <<"Error", " starting process: ", "spawn failed">>

StartsWithError_Never(str) == FALSE

StartsWithError(str) == Head(str) = "Error"

save_process(files, process_data) ==
    [i \in DOMAIN files \cup {process_data.id} |->
        IF i = process_data.id THEN process_data ELSE files[i]]

load_process_SomeRecord(files, id) ==
    IF id \in DOMAIN files THEN files[id]
    ELSE IF DOMAIN files = {} THEN <<>>
    ELSE files[CHOOSE i \in DOMAIN files : \A j \in DOMAIN files : j <= i]

load_process(files, id) == IF id \in DOMAIN files THEN files[id] ELSE <<>>

(* os.kill(pid, 0) returns without raising. *)
kill0_succeeds(os, pid) == os[pid].leader \in {"alive", "zombie", "stranger"}

(* os.killpg(os.getpgid(pid), sig) raises: getpgid finds no process, or
   killpg is not permitted. *)
killpg_raises(os, pid) == os[pid].leader \in {"gone", "denied"}

update_process_status_FromDisk(os, process_data) ==
    IF process_data.pid = NoPid THEN [process_data EXCEPT !.status = "unknown"]
    ELSE process_data

update_process_status(os, process_data) ==
    IF process_data.pid = NoPid THEN [process_data EXCEPT !.status = "unknown"]
    ELSE IF kill0_succeeds(os, process_data.pid)
         THEN [process_data EXCEPT !.status = "running"]
         ELSE [process_data EXCEPT !.status = "stopped"]

is_process_running(os, pid) == kill0_succeeds(os, pid)

list_processes_WithPid(files, os, order) ==
    LET HasPid(id) == files[id].pid # NoPid
        kept == SelectSeq(order, HasPid)
        loaded == [i \in 1..Len(kept) |->
                      [k |-> files[kept[i]].started_at,
                       v |-> update_process_status(os, files[kept[i]])]]
        sorted == SortDesc(loaded)
    IN  [i \in 1..Len(sorted) |-> sorted[i].v]

list_processes(files, os, order) ==
    LET loaded == [i \in 1..Len(order) |->
                      [k |-> files[order[i]].started_at,
                       v |-> update_process_status(os, files[order[i]])]]
        sorted == SortDesc(loaded)
    IN  [i \in 1..Len(sorted) |-> sorted[i].v]

ProcSummary(p) ==
    [id |-> p.id, name |-> p.name, owner |-> p.owner, status |-> p.status,
     started_at |-> p.started_at, pid |-> p.pid]

process_list(files, os, order, owner) ==
    LET processes == list_processes(files, os, order)
        Owned(p) == p.owner = owner
        filtered == IF owner # "" THEN SelectSeq(processes, Owned) ELSE processes
    IN  [i \in 1..Len(filtered) |-> ProcSummary(filtered[i])]

(* all_lines[-lines:] when lines > 0, else all_lines. *)
LastLines_First(all_lines, lines) ==
    IF lines > 0 /\ lines < Len(all_lines)
    THEN SubSeq(all_lines, 1, lines)
    ELSE all_lines

LastLines(all_lines, lines) ==
    IF lines > 0 /\ lines < Len(all_lines)
    THEN SubSeq(all_lines, Len(all_lines) - lines + 1, Len(all_lines))
    ELSE all_lines

(* What a delivered signal is recorded as: the signal, and what the pid it
   was addressed by stood for then. *)
Sig(sig, os, pid) == [sig |-> sig, leader |-> os[pid].leader]

(* SIGKILL reaches every process of the group of pid. *)
Killed(os, pid) ==
    [os EXCEPT ![pid] =
        [@ EXCEPT !.kids = FALSE,
                  !.leader = IF @ = "alive" THEN "zombie"
                             ELSE IF @ = "stranger" THEN "gone" ELSE @]]

(* subprocess.Popen first waits for every terminated child of the server. *)
Reaped(os) ==
    [p \in 1..Len(os) |->
        IF os[p].leader = "zombie" THEN [os[p] EXCEPT !.leader = "gone"] ELSE os[p]]

(***************************************************************************)
(* The body of mcp__process_start (lines 123-156) on the given directory   *)
(* and process table: what it leaves behind and what it returns.  ok tells *)
(* whether subprocess.Popen succeeds; when it raises, the log file has     *)
(* been created and nothing else.                                          *)
(***************************************************************************)
StartOutcome(files, logs, os, issued, in, t, ok) ==
    LET process_id == issued + 1
        logs1 == [i \in DOMAIN logs \cup {process_id} |->
                     IF i = process_id THEN <<>> ELSE logs[i]]
        process_data ==
            [id |-> process_id, name |-> in.name, owner |-> in.owner,
             command |-> in.command, cwd |-> in.cwd, pid |-> Len(os) + 1,
             status |-> "running", started_at |-> IsoFormat(t),
             stopped_at |-> <<>>, log_file |-> process_id]
    IN  IF ok
        THEN [files |-> save_process(files, process_data),
              logs |-> logs1,
              os |-> Append(Reaped(os), [leader |-> "alive", kids |-> FALSE, log |-> process_id]),
              val |-> IdStr(process_id)]
        ELSE [files |-> files, logs |-> logs1, os |-> Reaped(os), val |-> ErrorStr]

ProcessStart(in) ==
    /\ procPc = Idle
    /\ procIssued < MaxProcs
    /\ \E ok \in BOOLEAN :
      \E out \in {StartOutcome(procFiles, logFiles, osProcs, procIssued, in, now, ok)} :
        /\ procIssued' = procIssued + 1
        /\ procFiles' = out.files
        /\ logFiles' = out.logs
        /\ osProcs' = out.os
        /\ procRet' = [op |-> "process_start", args |-> in, val |-> out.val]
    /\ UNCHANGED <<now, procPc, sigLog>>
    /\ UNCHANGED <<mailVars, otherVars>>

ProcessList(owner) ==
    /\ procPc = Idle
    /\ \E order \in GlobOrders(DOMAIN procFiles) :
        procRet' = [op |-> "process_list", args |-> owner,
                    val |-> process_list(procFiles, osProcs, order, owner)]
    /\ UNCHANGED <<now, procFiles, logFiles, procIssued, osProcs, procPc, sigLog>>
    /\ UNCHANGED <<mailVars, otherVars>>

ProcessLogs(process_id, lines) ==
    /\ procPc = Idle
    /\ procRet' = [op |-> "process_logs", args |-> [process_id |-> process_id, lines |-> lines],
                   val |-> IF process_id \notin DOMAIN logFiles
                           THEN [text |-> "No logs found for process", id |-> process_id]
                           ELSE [log |-> LastLines(logFiles[process_id], lines)]]
    /\ UNCHANGED <<now, procFiles, logFiles, procIssued, osProcs, procPc, sigLog>>
    /\ UNCHANGED <<mailVars, otherVars>>

(***************************************************************************)
(* mcp__process_stop (lines 232-261).  The call is two steps of the        *)
(* server with time.sleep(2) between them, during which the processes go   *)
(* on running.  When the first killpg raises there is no sleep and the     *)
(* call is one step.                                                       *)
(***************************************************************************)
(* time.sleep(2) returns after at least two seconds. *)
SleepEnds(since) == (since + GraceTicks)..(since + GraceTicks + ClockSlack)

(* Lines 257-261: the except branch. *)
StoppedAlready_NotSaved(files, process_data) == files

StoppedAlready(files, process_data) ==
    save_process(files, [process_data EXCEPT !.status = "stopped"])

(* Lines 245-253: after the sleep; w is the clock then. *)
AfterSleep(files, os, log, process_data, w) ==
    LET pid == process_data.pid
        running == is_process_running(os, pid)
        probed == Append(log, Sig("0", os, pid))
    IN  [files |-> save_process(files, [process_data EXCEPT !.status = "stopped",
                                                           !.stopped_at = IsoFormat(w)]),
         os |-> IF running THEN Killed(os, pid) ELSE os,
         log |-> IF running THEN Append(probed, Sig("SIGKILL", os, pid)) ELSE probed]

ProcessStop(process_id) ==
    /\ procPc = Idle
    /\ LET process_data == load_process(procFiles, process_id)
       IN  IF process_data = <<>> \/ process_data.pid = NoPid
           THEN /\ procRet' = [op |-> "process_stop", args |-> process_id, val |-> FALSE]
                /\ sigLog' = <<>>
                /\ UNCHANGED <<procFiles, procPc>>
           ELSE IF killpg_raises(osProcs, process_data.pid)
           THEN /\ procFiles' = StoppedAlready(procFiles, process_data)
                /\ procRet' = [op |-> "process_stop", args |-> process_id, val |-> TRUE]
                /\ sigLog' = <<>>
                /\ UNCHANGED procPc
           ELSE /\ now + GraceTicks + ClockSlack <= ProcMaxClock
                /\ sigLog' = <<Sig("SIGTERM", osProcs, process_data.pid)>>
                /\ procPc' = [at |-> "sleep", op |-> "process_stop", id |-> process_id,
                              data |-> process_data, since |-> now]
                /\ UNCHANGED <<procFiles, procRet>>
    /\ UNCHANGED <<now, logFiles, procIssued, osProcs>>
    /\ UNCHANGED <<mailVars, otherVars>>

StopWakes ==
    /\ procPc.at = "sleep"
    /\ procPc.op = "process_stop"
    /\ \E w \in SleepEnds(procPc.since) :
      \E out \in {AfterSleep(procFiles, osProcs, sigLog, procPc.data, w)} :
        /\ now' = w
        /\ procFiles' = out.files
        /\ osProcs' = out.os
        /\ sigLog' = out.log
    /\ procRet' = [op |-> "process_stop", args |-> procPc.id, val |-> TRUE]
    /\ procPc' = Idle
    /\ UNCHANGED <<logFiles, procIssued>>
    /\ UNCHANGED <<mailVars, otherVars>>

(***************************************************************************)
(* mcp__process_restart (lines 275-291): load, process_stop, and then      *)
(* process_start with the loaded command, cwd, name and owner.             *)
(***************************************************************************)
RestartArgs_NameForOwner(process_data) ==
    [command |-> process_data.command, cwd |-> process_data.cwd,
     name |-> process_data.name, owner |-> process_data.name]

RestartArgs(process_data) ==
    [command |-> process_data.command, cwd |-> process_data.cwd,
     name |-> process_data.name, owner |-> process_data.owner]

ProcessRestart(process_id) ==
    /\ procPc = Idle
    /\ LET process_data == load_process(procFiles, process_id)
       IN  IF process_data = <<>> \/ process_data.pid = NoPid
           THEN /\ procRet' = [op |-> "process_restart", args |-> process_id, val |-> FALSE]
                /\ sigLog' = <<>>
                /\ UNCHANGED <<now, procFiles, logFiles, procIssued, osProcs, procPc>>
           ELSE IF killpg_raises(osProcs, process_data.pid)
           THEN /\ procIssued < MaxProcs
                /\ \E ok \in BOOLEAN :
                  \E out \in {StartOutcome(StoppedAlready(procFiles, process_data), logFiles,
                                           osProcs, procIssued, RestartArgs(process_data),
                                           now, ok)} :
                    /\ procFiles' = out.files
                    /\ logFiles' = out.logs
                    /\ osProcs' = out.os
                    /\ procRet' = [op |-> "process_restart", args |-> process_id,
                                   val |-> ~StartsWithError(out.val)]
                /\ procIssued' = procIssued + 1
                /\ sigLog' = <<>>
                /\ UNCHANGED <<now, procPc>>
           ELSE /\ procIssued < MaxProcs
                /\ now + GraceTicks + ClockSlack <= ProcMaxClock
                /\ sigLog' = <<Sig("SIGTERM", osProcs, process_data.pid)>>
                /\ procPc' = [at |-> "sleep", op |-> "process_restart", id |-> process_id,
                              data |-> process_data, since |-> now]
                /\ UNCHANGED <<now, procFiles, logFiles, procIssued, osProcs, procRet>>
    /\ UNCHANGED <<mailVars, otherVars>>

RestartWakes ==
    /\ procPc.at = "sleep"
    /\ procPc.op = "process_restart"
    /\ \E w \in SleepEnds(procPc.since), ok \in BOOLEAN :
      \E stopped \in {AfterSleep(procFiles, osProcs, sigLog, procPc.data, w)} :
      \E out \in {StartOutcome(stopped.files, logFiles, stopped.os, procIssued,
                               RestartArgs(procPc.data), w, ok)} :
        /\ now' = w
        /\ procFiles' = out.files
        /\ logFiles' = out.logs
        /\ osProcs' = out.os
        /\ sigLog' = stopped.log
        /\ procRet' = [op |-> "process_restart", args |-> procPc.id,
                       val |-> ~StartsWithError(out.val)]
    /\ procIssued' = procIssued + 1
    /\ procPc' = Idle
    /\ UNCHANGED <<mailVars, otherVars>>

(***************************************************************************)
(* mcp__process_cleanup (lines 302-323).                                   *)
(***************************************************************************)
ToClean_NotRunning(process) == process.status # "running"

ToClean(process) == process.status = "stopped"

ProcessCleanup ==
    /\ procPc = Idle
    /\ \E order \in GlobOrders(DOMAIN procFiles) :
      \E processes \in {list_processes(procFiles, osProcs, order)} :
        LET cleaned == {i \in 1..Len(processes) : ToClean(processes[i])}
            cleaned_count == Cardinality(cleaned)
        IN  /\ procFiles' = [id \in DOMAIN procFiles \ {processes[i].id : i \in cleaned} |->
                                procFiles[id]]
            /\ procRet' = [op |-> "process_cleanup", args |-> <<>>,
                           val |-> [cleaned_processes |-> cleaned_count,
                                    remaining_processes |-> Len(processes) - cleaned_count]]
    /\ UNCHANGED <<now, logFiles, procIssued, osProcs, procPc, sigLog>>
    /\ UNCHANGED <<mailVars, otherVars>>

(***************************************************************************)
(* What the processes and the OS do on their own, at any time, also while  *)
(* the server sleeps inside process_stop.  A process that receives SIGTERM *)
(* terminates or goes on, as the command chooses.                          *)
(***************************************************************************)
LeaderExits(pid) ==
    /\ osProcs[pid].leader = "alive"
    /\ osProcs' = [osProcs EXCEPT ![pid].leader = "zombie"]
    /\ UNCHANGED <<now, procFiles, logFiles, procIssued, procPc, sigLog, procRet>>
    /\ UNCHANGED <<mailVars, otherVars>>

KidForks(pid) ==
    /\ osProcs[pid].leader = "alive"
    /\ ~osProcs[pid].kids
    /\ Cardinality({p \in Pids : osProcs[p].kids}) < MaxKidGroups
    /\ osProcs' = [osProcs EXCEPT ![pid].kids = TRUE]
    /\ UNCHANGED <<now, procFiles, logFiles, procIssued, procPc, sigLog, procRet>>
    /\ UNCHANGED <<mailVars, otherVars>>

KidsExit(pid) ==
    /\ osProcs[pid].kids
    /\ osProcs' = [osProcs EXCEPT ![pid].kids = FALSE]
    /\ UNCHANGED <<now, procFiles, logFiles, procIssued, procPc, sigLog, procRet>>
    /\ UNCHANGED <<mailVars, otherVars>>

(* The OS gives a free pid to a new process once no process and no process
   group uses the number. *)
PidReused(pid, who) ==
    /\ osProcs[pid].leader = "gone"
    /\ ~osProcs[pid].kids
    /\ Cardinality({p \in Pids : osProcs[p].leader \in {"stranger", "denied"}}) < MaxReused
    /\ osProcs' = [osProcs EXCEPT ![pid].leader = who]
    /\ UNCHANGED <<now, procFiles, logFiles, procIssued, procPc, sigLog, procRet>>
    /\ UNCHANGED <<mailVars, otherVars>>

StrangerExits(pid) ==
    /\ osProcs[pid].leader \in {"stranger", "denied"}
    /\ osProcs' = [osProcs EXCEPT ![pid].leader = "gone"]
    /\ UNCHANGED <<now, procFiles, logFiles, procIssued, procPc, sigLog, procRet>>
    /\ UNCHANGED <<mailVars, otherVars>>

(* A running process of the group writes a line to stdout or stderr. *)
LogWritten(pid) ==
    /\ osProcs[pid].leader = "alive" \/ osProcs[pid].kids
    /\ Cardinality({ik \in (DOMAIN logFiles) \X (1..MaxLogLines) :
                        ik[2] <= Len(logFiles[ik[1]])}) < MaxLogLines
    /\ logFiles' = [logFiles EXCEPT ![osProcs[pid].log] = Append(@, Len(@) + 1)]
    /\ UNCHANGED <<now, procFiles, procIssued, osProcs, procPc, sigLog, procRet>>
    /\ UNCHANGED <<mailVars, otherVars>>

(***************************************************************************)
(* mcp__process_start when save_process raises (lines 152, 155-156): the   *)
(* disk is full or the file may not be written.  The log file exists and   *)
(* subprocess.Popen has returned, so the process runs; the metadata file   *)
(* is missing or empty, which load_process and list_processes read as no   *)
(* record.  The exception is caught and its text returned.  Part of        *)
(* ProcFaultSpec only.                                                     *)
(***************************************************************************)
SaveErrorStr == <<"Error", " starting process: ", "write failed">>

ProcessStartSaveFails(in) ==
    /\ procPc = Idle
    /\ procIssued < MaxProcs
    /\ \E out \in {StartOutcome(procFiles, logFiles, osProcs, procIssued, in, now, TRUE)} :
        /\ procIssued' = procIssued + 1
        /\ logFiles' = out.logs
        /\ osProcs' = out.os
        /\ procRet' = [op |-> "process_start", args |-> in, val |-> SaveErrorStr]
    /\ UNCHANGED <<now, procFiles, procPc, sigLog>>
    /\ UNCHANGED <<mailVars, otherVars>>

(***************************************************************************)
(* A grace window goes by with the server idle.  The processes that had    *)
(* terminated before it are marked past_grace: they have been dead for     *)
(* the length of a grace window or longer.  Nothing waits for them         *)
(* meanwhile: the server is the parent and does it only in Popen.  Part of *)
(* ProcClockSpec only.                                                     *)
(***************************************************************************)
PastGrace(p) ==
    [leader |-> p.leader, kids |-> p.kids, log |-> p.log, past_grace |-> TRUE]

GraceWindowPasses ==
    /\ procPc = Idle
    /\ now + GraceTicks <= ProcMaxClock
    /\ \E pid \in Pids : osProcs[pid].leader = "zombie"
    /\ now' = now + GraceTicks
    /\ osProcs' = [pid \in 1..Len(osProcs) |->
                      IF osProcs[pid].leader \in {"zombie", "gone"}
                      THEN PastGrace(osProcs[pid]) ELSE osProcs[pid]]
    /\ UNCHANGED <<procFiles, logFiles, procIssued, procPc, sigLog, procRet>>
    /\ UNCHANGED <<mailVars, otherVars>>

(* PROCESS_DIR.mkdir(exist_ok=True): the directory is empty or holds what an
   earlier run or another writer left there. *)
ProcDirEmpty ==
    /\ procFiles = <<>>
    /\ logFiles = <<>>
    /\ procIssued = 0
    /\ osProcs = <<>>
    /\ procPc = Idle
    /\ sigLog = <<>>
    /\ procRet = [op |-> "none", args |-> <<>>, val |-> <<>>]

ProcInit ==
    /\ procFiles \in {<<>>, 0 :> LegacyRecord}
    /\ logFiles = <<>>
    /\ procIssued = 0
    /\ osProcs = <<>>
    /\ procPc = Idle
    /\ sigLog = <<>>
    /\ procRet = [op |-> "none", args |-> <<>>, val |-> <<>>]

(* The tool calls of the process server. *)
ProcCalls ==
    \/ \E in \in ProcInputs : ProcessStart(in)
    \/ \E owner \in OwnerArgs : ProcessList(owner)
    \/ \E id \in ProcIds, lines \in LinesArgs : ProcessLogs(id, lines)
    \/ \E id \in ProcIds : ProcessStop(id)
    \/ StopWakes
    \/ \E id \in ProcIds : ProcessRestart(id)
    \/ RestartWakes
    \/ ProcessCleanup

(***************************************************************************)
(* A process writes another line to its log, up to MaxLines lines; line k  *)
(* of a log is k.  Part of ProcLogsSpec, the server with processes that    *)
(* write longer logs, where process_logs is asked for fewer lines than     *)
(* there are, for more, for none and for a negative count.                 *)
(***************************************************************************)
LogGrows(pid) ==
    /\ osProcs[pid].leader = "alive"
    /\ Len(logFiles[osProcs[pid].log]) < MaxLines
    /\ logFiles' = [logFiles EXCEPT ![osProcs[pid].log] = Append(@, Len(@) + 1)]
    /\ UNCHANGED <<now, procFiles, procIssued, osProcs, procPc, sigLog, procRet>>
    /\ UNCHANGED <<mailVars, otherVars>>

LinesArgsWide == (0 - 1)..(MaxLines + 1)

ProcLogsNext ==
    \/ \E in \in ProcInputs : ProcessStart(in)
    \/ \E id \in ProcIds, lines \in LinesArgsWide : ProcessLogs(id, lines)
    \/ ProcessCleanup
    \/ \E pid \in Pids : LeaderExits(pid)
    \/ \E pid \in Pids : LogGrows(pid)

(* The server and the process groups it spawned. *)
ProcNext ==
    \/ ProcCalls
    \/ \E pid \in Pids : LeaderExits(pid)
    \/ \E pid \in Pids : KidForks(pid)
    \/ \E pid \in Pids : KidsExit(pid)
    \/ \E pid \in Pids : LogWritten(pid)

(* Both servers answering queries about what sends, reads and starts have
   stored, while the spawned processes write their logs and exit. *)
QueryNext ==
    \/ \E in \in {m \in MailInputs : m.to = <<"a2">>} : MailSend(in)
    \/ MailInbox("a2")
    \/ \E id \in MsgIds : MailRead(id)
    \/ MailListAll
    \/ \E in \in {p \in ProcInputs : p.owner = "o1"} : ProcessStart(in)
    \/ ProcessList("")
    \/ \E id \in ProcIds : ProcessLogs(id, 0)
    \/ \E pid \in Pids : LeaderExits(pid)
    \/ \E pid \in Pids : LogWritten(pid)

(* The server on a machine that gives the pids of finished processes to
   new, unrelated ones. *)
ProcReuseNext ==
    \/ ProcCalls
    \/ \E pid \in Pids : LeaderExits(pid)
    \/ \E pid \in Pids, who \in {"stranger", "denied"} : PidReused(pid, who)
    \/ \E pid \in Pids : StrangerExits(pid)

(***************************************************************************)
(* Calls that overlap.  Every agent runs servers of its own on the shared  *)
(* directories, so a mail_send or process_start of one caller runs while   *)
(* those of the others do, and the steps interleave at the operations on   *)
(* the filesystem and the process table.  calls[c] is the call caller c    *)
(* is in, or the one it finished last:                                     *)
(*   mail_send      built (lines 85-95), opened (open(path, "w"), line     *)
(*                  37), returned (json.dump and close, lines 38, 99);     *)
(*   process_start  named (lines 123-125), spawned (lines 129-137),        *)
(*                  opened (line 47), returned (lines 48, 153 or 156).     *)
(* A file that was opened for writing and not written yet is empty, which  *)
(* json.load rejects.  Part of ConcSpec only.                              *)
(***************************************************************************)
Callers == 1..MaxCallers

Ready == [pc |-> "ready"]

NoCalls == calls = [c \in Callers |-> Ready]

CanCall(c) == calls[c].pc \in {"ready", "returned"}

generate_process_id(issued) == issued + 1

Message(call) ==
    [id |-> call.id, from |-> call.args.from, to |-> call.args.to,
     subject |-> call.args.subject, body |-> call.args.body,
     timestamp |-> call.timestamp, read |-> FALSE]

SendBuilds(c, in) ==
    /\ CanCall(c)
    /\ mailIssued < MaxMsgs
    /\ \E t \in now..MaxClock :
        /\ now' = t
        /\ calls' = [calls EXCEPT ![c] =
                        [pc |-> "built", op |-> "mail_send", args |-> in,
                         id |-> generate_message_id(mailIssued),
                         timestamp |-> IsoFormat(t)]]
    /\ mailIssued' = mailIssued + 1
    /\ UNCHANGED <<mailFiles, mailRet>>
    /\ UNCHANGED <<procVars, cfgVars, coreVars>>

SendOpens(c) ==
    /\ calls[c].pc = "built"
    /\ mailFiles' = [i \in DOMAIN mailFiles \cup {calls[c].id} |->
                        IF i = calls[c].id THEN Unparseable ELSE mailFiles[i]]
    /\ calls' = [calls EXCEPT ![c].pc = "opened"]
    /\ UNCHANGED <<now, mailIssued, mailRet>>
    /\ UNCHANGED <<procVars, cfgVars, coreVars>>

SendWrites(c) ==
    /\ calls[c].pc = "opened"
    /\ calls[c].op = "mail_send"
    /\ mailFiles' = save_message(mailFiles, Message(calls[c]))
    /\ calls' = [calls EXCEPT ![c] =
                    [pc |-> "returned", op |-> "mail_send", args |-> calls[c].args,
                     id |-> calls[c].id, timestamp |-> calls[c].timestamp,
                     val |-> calls[c].id]]
    /\ UNCHANGED <<now, mailIssued, mailRet>>
    /\ UNCHANGED <<procVars, cfgVars, coreVars>>

ProcessData(call) ==
    [id |-> call.id, name |-> call.args.name, owner |-> call.args.owner,
     command |-> call.args.command, cwd |-> call.args.cwd, pid |-> call.pid,
     status |-> "running", started_at |-> call.timestamp,
     stopped_at |-> <<>>, log_file |-> call.id]

StartNames(c, in) ==
    /\ CanCall(c)
    /\ procIssued < MaxProcs
    /\ calls' = [calls EXCEPT ![c] =
                    [pc |-> "named", op |-> "process_start", args |-> in,
                     id |-> generate_process_id(procIssued),
                     timestamp |-> IsoFormat(now)]]
    /\ procIssued' = procIssued + 1
    /\ UNCHANGED <<now, procFiles, logFiles, osProcs, procPc, sigLog, procRet>>
    /\ UNCHANGED <<mailVars, cfgVars, coreVars>>

StartSpawns(c) ==
    /\ calls[c].pc = "named"
    /\ logFiles' = [i \in DOMAIN logFiles \cup {calls[c].id} |->
                       IF i = calls[c].id THEN <<>> ELSE logFiles[i]]
    /\ \E ok \in BOOLEAN :
        IF ok
        THEN /\ osProcs' = Append(Reaped(osProcs),
                                  [leader |-> "alive", kids |-> FALSE, log |-> calls[c].id])
             /\ calls' = [calls EXCEPT ![c] =
                            [pc |-> "spawned", op |-> "process_start",
                             args |-> calls[c].args, id |-> calls[c].id,
                             timestamp |-> calls[c].timestamp,
                             pid |-> Len(osProcs) + 1]]
        ELSE /\ osProcs' = Reaped(osProcs)
             /\ calls' = [calls EXCEPT ![c] =
                            [pc |-> "returned", op |-> "process_start",
                             args |-> calls[c].args, id |-> calls[c].id,
                             timestamp |-> calls[c].timestamp, val |-> ErrorStr]]
    /\ UNCHANGED <<now, procFiles, procIssued, procPc, sigLog, procRet>>
    /\ UNCHANGED <<mailVars, cfgVars, coreVars>>

StartOpens(c) ==
    /\ calls[c].pc = "spawned"
    /\ procFiles' = [i \in DOMAIN procFiles \cup {calls[c].id} |->
                        IF i = calls[c].id THEN Unparseable ELSE procFiles[i]]
    /\ calls' = [calls EXCEPT ![c].pc = "opened"]
    /\ UNCHANGED <<now, logFiles, procIssued, osProcs, procPc, sigLog, procRet>>
    /\ UNCHANGED <<mailVars, cfgVars, coreVars>>

StartWrites(c) ==
    /\ calls[c].pc = "opened"
    /\ calls[c].op = "process_start"
    /\ procFiles' = save_process(procFiles, ProcessData(calls[c]))
    /\ calls' = [calls EXCEPT ![c] =
                    [pc |-> "returned", op |-> "process_start",
                     args |-> calls[c].args, id |-> calls[c].id,
                     timestamp |-> calls[c].timestamp, pid |-> calls[c].pid,
                     val |-> IdStr(calls[c].id)]]
    /\ UNCHANGED <<now, logFiles, procIssued, osProcs, procPc, sigLog, procRet>>
    /\ UNCHANGED <<mailVars, cfgVars, coreVars>>

(***************************************************************************)
(* mail_read and mail_delete calls that overlap with other calls.          *)
(*   mail_read    loaded (load_message, line 142; or returned, when it     *)
(*                gave None, lines 143-144), opened (open(path, "w") of    *)
(*                save_message, line 37, which creates the file or cuts it *)
(*                to nothing), returned (json.dump and close, lines 38,    *)
(*                150);                                                    *)
(*   mail_delete  found (exists(), line 166; or returned False, line 167), *)
(*                returned (unlink, lines 169-172).                        *)
(* Part of MailRaceSpec and MailRewriteSpec only.                          *)
(***************************************************************************)
ReadLoads(c, message_id) ==
    /\ CanCall(c)
    /\ \E message \in {load_message(mailFiles, message_id)} :
        calls' = [calls EXCEPT ![c] =
                    IF message = <<>>
                    THEN [pc |-> "returned", op |-> "mail_read", args |-> message_id,
                          val |-> NotFoundMsg(message_id)]
                    ELSE [pc |-> "loaded", op |-> "mail_read", args |-> message_id,
                          message |-> MarkRead(message)]]
    /\ UNCHANGED <<now, mailFiles, mailIssued, mailRet>>
    /\ UNCHANGED <<procVars, cfgVars, coreVars>>

ReadOpens(c) ==
    /\ calls[c].pc = "loaded"
    /\ mailFiles' = [i \in DOMAIN mailFiles \cup {calls[c].args} |->
                        IF i = calls[c].args THEN Unparseable ELSE mailFiles[i]]
    /\ calls' = [calls EXCEPT ![c].pc = "opened"]
    /\ UNCHANGED <<now, mailIssued, mailRet>>
    /\ UNCHANGED <<procVars, cfgVars, coreVars>>

ReadWrites(c) ==
    /\ calls[c].pc = "opened"
    /\ calls[c].op = "mail_read"
    /\ mailFiles' = save_message(mailFiles, calls[c].message)
    /\ calls' = [calls EXCEPT ![c] =
                    [pc |-> "returned", op |-> "mail_read", args |-> calls[c].args,
                     val |-> calls[c].message]]
    /\ UNCHANGED <<now, mailIssued, mailRet>>
    /\ UNCHANGED <<procVars, cfgVars, coreVars>>

DeleteChecks(c, message_id) ==
    /\ CanCall(c)
    /\ calls' = [calls EXCEPT ![c] =
                    IF message_id \notin DOMAIN mailFiles
                    THEN [pc |-> "returned", op |-> "mail_delete", args |-> message_id,
                          val |-> FALSE]
                    ELSE [pc |-> "found", op |-> "mail_delete", args |-> message_id]]
    /\ UNCHANGED <<now, mailFiles, mailIssued, mailRet>>
    /\ UNCHANGED <<procVars, cfgVars, coreVars>>

(* unlink raises FileNotFoundError, an OSError, when the file is gone. *)
DeleteUnlinks(c) ==
    /\ calls[c].pc = "found"
    /\ mailFiles' = unlink(mailFiles, calls[c].args)
    /\ calls' = [calls EXCEPT ![c] =
                    [pc |-> "returned", op |-> "mail_delete", args |-> calls[c].args,
                     val |-> calls[c].args \in DOMAIN mailFiles]]
    /\ UNCHANGED <<now, mailIssued, mailRet>>
    /\ UNCHANGED <<procVars, cfgVars, coreVars>>

MailRewriteNext ==
    \/ \E in \in MailInputs : MailSend(in)
    \/ \E c \in Callers, id \in MsgIds : ReadLoads(c, id)
    \/ \E c \in Callers : ReadOpens(c)
    \/ \E c \in Callers : ReadWrites(c)
    \/ MailListAll

MailRaceNext ==
    \/ \E in \in MailInputs : MailSend(in)
    \/ \E c \in Callers, id \in MsgIds : ReadLoads(c, id)
    \/ \E c \in Callers : ReadOpens(c)
    \/ \E c \in Callers : ReadWrites(c)
    \/ \E c \in Callers, id \in MsgIds : DeleteChecks(c, id)
    \/ \E c \in Callers : DeleteUnlinks(c)

ConcNext ==
    \/ \E c \in Callers, in \in MailInputs : SendBuilds(c, in)
    \/ \E c \in Callers : SendOpens(c)
    \/ \E c \in Callers : SendWrites(c)
    \/ \E c \in Callers, in \in ProcInputs : StartNames(c, in)
    \/ \E c \in Callers : StartSpawns(c)
    \/ \E c \in Callers : StartOpens(c)
    \/ \E c \in Callers : StartWrites(c)

(***************************************************************************)
(* The configuration (src/config.py).                                      *)
(*                                                                         *)
(* A string is a sequence of symbols.  A symbol is one character (a digit, *)
(* "-", "+", " ", ",", ".") or a word that stands for its own text and has *)
(* none of these characters in it.  A value of Python is kept with its     *)
(* type: a str, a list (of strings), an int, a bool or None.              *)
(*                                                                         *)
(* The model has the twelve settings that validate and to_dict tell apart; *)
(* each of the others is loaded like one of them: the other int settings   *)
(* like API_WORKERS, ALLOWED_FILE_EXTENSIONS and CORS_ORIGINS like         *)
(* API_TOKENS, the feature flags like TELEMETRY_ENABLED, the other strings *)
(* like PROJECT_NAME or, without a default, like CACHE_REDIS_URL.          *)
(***************************************************************************)
StrVal(s) == [t |-> "str", v |-> s]

ListVal(l) == [t |-> "list", v |-> l]

IntVal(n) == [t |-> "int", v |-> n]

BoolVal(b) == [t |-> "bool", v |-> b]

None == [t |-> "none"]

(* bool(value) of the values above. *)
Truthy(value) ==
    CASE value.t = "none" -> FALSE
      [] value.t = "bool" -> value.v
      [] value.t = "int" -> value.v # 0
      [] OTHER -> value.v # <<>>

Names ==
    {"PROJECT_NAME", "ENVIRONMENT", "API_PORT", "API_WORKERS", "SECRET_KEY",
     "API_TOKENS", "TELEMETRY_ENABLED", "HONEYCOMB_API_KEY", "MAX_FILE_SIZE_MB",
     "ALLOWED_FILE_EXTENSIONS", "LOG_LEVEL", "CACHE_TYPE", "CACHE_REDIS_URL"}

(* The name of a setting, as a string. *)
NameStr(name) ==
    CASE name = "PROJECT_NAME" -> <<"PROJECT", "_", "NAME">>
      [] name = "ENVIRONMENT" -> <<"ENVIRONMENT">>
      [] name = "API_PORT" -> <<"API", "_", "PORT">>
      [] name = "API_WORKERS" -> <<"API", "_", "WORKERS">>
      [] name = "SECRET_KEY" -> <<"SECRET", "_", "KEY">>
      [] name = "API_TOKENS" -> <<"API", "_", "TOKEN", "S">>
      [] name = "TELEMETRY_ENABLED" -> <<"TELEMETRY", "_", "ENABLED">>
      [] name = "HONEYCOMB_API_KEY" -> <<"HONEYCOMB", "_", "API", "_", "KEY">>
      [] name = "MAX_FILE_SIZE_MB" -> <<"MAX", "_", "FILE", "_", "SIZE", "_", "MB">>
      [] name = "ALLOWED_FILE_EXTENSIONS" -> <<"ALLOWED", "_", "FILE", "_", "EXTENSIONS">>
      [] name = "LOG_LEVEL" -> <<"LOG", "_", "LEVEL">>
      [] name = "CACHE_TYPE" -> <<"CACHE", "_", "TYPE">>
      [] name = "CACHE_REDIS_URL" -> <<"CACHE", "_", "REDIS", "_", "URL">>

(* str.lower() and str.upper(), symbol by symbol. *)
LowerSym(sym) ==
    CASE sym = "KEY" -> "key"
      [] sym = "SECRET" -> "secret"
      [] sym = "TOKEN" -> "token"
      [] sym = "PASSWORD" -> "password"
      [] sym = "S" -> "s"
      [] sym = "API" -> "api"
      [] sym = "HONEYCOMB" -> "honeycomb"
      [] sym = "TRUE" -> "true"
      [] sym = "True" -> "true"
      [] sym = "FALSE" -> "false"
      [] sym = "DEBUG" -> "debug"
      [] sym = "INFO" -> "info"
      [] sym = "TRACE" -> "trace"
      [] sym \in {"PROJECT", "NAME", "ENVIRONMENT", "PORT", "WORKERS", "TELEMETRY",
                  "ENABLED", "MAX", "FILE", "SIZE", "MB", "LOG", "LEVEL", "CACHE",
                  "TYPE", "REDIS", "URL", "ALLOWED", "EXTENSIONS"} -> "other"
      [] OTHER -> sym

UpperSym(sym) ==
    CASE sym = "debug" -> "DEBUG"
      [] sym = "info" -> "INFO"
      [] sym = "Info" -> "INFO"
      [] sym = "trace" -> "TRACE"
      [] OTHER -> sym

lower(s) == [i \in 1..Len(s) |-> LowerSym(s[i])]

upper(s) == [i \in 1..Len(s) |-> UpperSym(s[i])]

(* sub in s, for strings. *)
Contains(s, sub) ==
    \E i \in 1..(Len(s) - Len(sub) + 1) : SubSeq(s, i, i + Len(sub) - 1) = sub

(* str.strip(): whitespace off both ends. *)
Whitespace == {" ", "\t"}

RECURSIVE LStrip(_)
LStrip(s) == IF s # <<>> /\ Head(s) \in Whitespace THEN LStrip(Tail(s)) ELSE s

RECURSIVE RStrip(_)
RStrip(s) ==
    IF s # <<>> /\ s[Len(s)] \in Whitespace THEN RStrip(SubSeq(s, 1, Len(s) - 1)) ELSE s

strip(s) == RStrip(LStrip(s))

(* str.split(","): the segments between the commas, empty ones included. *)
RECURSIVE split(_)
split(s) ==
    IF \A i \in 1..Len(s) : s[i] # ","
    THEN <<s>>
    ELSE LET i == CHOOSE k \in 1..Len(s) : s[k] = "," /\ \A j \in 1..(k - 1) : s[j] # ","
         IN  <<SubSeq(s, 1, i - 1)>> \o split(SubSeq(s, i + 1, Len(s)))

(* [x.strip() for x in s.split(",") if x.strip()] (lines 44-46). *)
StripAll(segments) == [i \in 1..Len(segments) |-> strip(segments[i])]

NonEmpty(segment) == segment # <<>>

comma_list_Untrimmed(s) == split(s)

comma_list(s) == SelectSeq(StripAll(split(s)), NonEmpty)

(* The default of ALLOWED_FILE_EXTENSIONS (line 75), of which the model    *)
(* keeps the first three of the 76 extensions.                             *)
DefaultExtensions == <<".", "py", ",", ".", "js", ",", ".", "ts">>

ListDefault(name) ==
    CASE name = "API_TOKENS" -> <<>>
      [] name = "ALLOWED_FILE_EXTENSIONS" -> DefaultExtensions

(***************************************************************************)
(* int(s): whitespace around, one optional sign, then decimal digits and   *)
(* nothing else; anything else raises ValueError.  NotAnInt stands for the *)
(* exception.  ("_" between digits is not among the symbols.)              *)
(***************************************************************************)
Digits == {"0", "1", "2", "3", "4", "5", "6", "7", "8", "9"}

DigitVal(d) ==
    CASE d = "0" -> 0 [] d = "1" -> 1 [] d = "2" -> 2 [] d = "3" -> 3
      [] d = "4" -> 4 [] d = "5" -> 5 [] d = "6" -> 6 [] d = "7" -> 7
      [] d = "8" -> 8 [] d = "9" -> 9

RECURSIVE Decimal(_)
Decimal(ds) ==
    IF ds = <<>> THEN 0
    ELSE 10 * Decimal(SubSeq(ds, 1, Len(ds) - 1)) + DigitVal(ds[Len(ds)])

NotAnInt == [raised |-> "ValueError"]

int(s) ==
    LET body == strip(s)
        signed == body # <<>> /\ Head(body) \in {"-", "+"}
        ds == IF signed THEN Tail(body) ELSE body
    IN  IF ds = <<>> \/ \E i \in 1..Len(ds) : ds[i] \notin Digits
        THEN NotAnInt
        ELSE [val |-> IF signed /\ Head(body) = "-" THEN 0 - Decimal(ds) ELSE Decimal(ds)]

(* os.environ.get(name, default) and os.environ.get(name). *)
environ_get(env, name, default) == IF name \in DOMAIN env THEN env[name] ELSE default

(***************************************************************************)
(* The class body of Config (lines 34-102), which runs when the module is  *)
(* imported.  The result is the attributes, or the first exception an      *)
(* int() of the body raises.                                               *)
(***************************************************************************)
IntSettings == <<"API_PORT", "API_WORKERS", "MAX_FILE_SIZE_MB">>

IntDefault(name) ==
    CASE name = "API_PORT" -> <<"8", "0", "0", "0">>
      [] name = "API_WORKERS" -> <<"4">>
      [] name = "MAX_FILE_SIZE_MB" -> <<"1", "0", "0">>

IntOf(env, name) == int(environ_get(env, name, IntDefault(name)))

ClassBody(env) ==
    LET failing == {i \in 1..Len(IntSettings) : "raised" \in DOMAIN IntOf(env, IntSettings[i])}
    IN  IF failing # {}
        THEN [raised |-> "ValueError",
              at |-> IntSettings[CHOOSE i \in failing : \A j \in failing : i <= j]]
        ELSE [val |->
               [name \in Names |->
                 CASE name = "PROJECT_NAME" ->
                        StrVal(environ_get(env, name, <<"coding-agent">>))
                   [] name = "ENVIRONMENT" ->
                        StrVal(environ_get(env, name, <<"development">>))
                   [] name \in {"API_PORT", "API_WORKERS", "MAX_FILE_SIZE_MB"} ->
                        IntVal(IntOf(env, name).val)
                   [] name \in {"SECRET_KEY", "HONEYCOMB_API_KEY"} ->
                        StrVal(environ_get(env, name, <<>>))
                   [] name \in {"API_TOKENS", "ALLOWED_FILE_EXTENSIONS"} ->
                        ListVal(comma_list(environ_get(env, name, ListDefault(name))))
                   [] name = "TELEMETRY_ENABLED" ->
                        BoolVal(lower(environ_get(env, name, <<"true">>)) = <<"true">>)
                   [] name = "LOG_LEVEL" ->
                        StrVal(upper(environ_get(env, name, <<"INFO">>)))
                   [] name = "CACHE_TYPE" ->
                        StrVal(environ_get(env, name, <<"memory">>))
                   [] name = "CACHE_REDIS_URL" ->
                        IF name \in DOMAIN env THEN StrVal(env[name]) ELSE None]]

(***************************************************************************)
(* Config.validate (lines 104-152).  An error is the text of its f-string  *)
(* with the value it formats.                                              *)
(***************************************************************************)
valid_environments == {<<"development">>, <<"staging">>, <<"production">>, <<"test">>}

valid_log_levels == {<<"DEBUG">>, <<"INFO">>, <<"WARNING">>, <<"ERROR">>, <<"CRITICAL">>}

valid_cache_types == {<<"memory">>, <<"redis">>, <<"memcached">>}

MinPort == 1

MaxPort == 65535

MinWorkers == 1

MinFileSizeMB == 1

MaxFileSizeMB == 1000

Error(rule, text, got) == [rule |-> rule, text |-> text, got |-> got]

When(cond, error) == IF cond THEN <<error>> ELSE <<>>

Errors(cls) ==
    When(cls.API_PORT.v < MinPort \/ cls.API_PORT.v > MaxPort,
         Error("API_PORT", "Invalid API_PORT: {}", cls.API_PORT.v))
    \o When(cls.API_WORKERS.v < MinWorkers,
         Error("API_WORKERS", "API_WORKERS must be at least 1, got {}", cls.API_WORKERS.v))
    \o When(cls.ENVIRONMENT.v \notin valid_environments,
         Error("ENVIRONMENT", "ENVIRONMENT must be one of {}, got {}", cls.ENVIRONMENT.v))
    \o When(cls.LOG_LEVEL.v \notin valid_log_levels,
         Error("LOG_LEVEL", "LOG_LEVEL must be one of {}, got {}", cls.LOG_LEVEL.v))
    \o When(cls.MAX_FILE_SIZE_MB.v < MinFileSizeMB \/ cls.MAX_FILE_SIZE_MB.v > MaxFileSizeMB,
         Error("MAX_FILE_SIZE_MB", "MAX_FILE_SIZE_MB must be between 1 and 1000, got {}",
               cls.MAX_FILE_SIZE_MB.v))
    \o When(cls.CACHE_TYPE.v \notin valid_cache_types,
         Error("CACHE_TYPE", "CACHE_TYPE must be one of {}, got {}", cls.CACHE_TYPE.v))
    \o When(cls.CACHE_TYPE.v = <<"redis">> /\ ~Truthy(cls.CACHE_REDIS_URL),
         Error("CACHE_REDIS_URL", "CACHE_REDIS_URL must be set when using Redis cache", <<>>))

(* "Configuration validation failed:\n" + "\n".join(f"  - {e}" for e in
   errors), as its lines. *)
FailedMessage_FirstOnly(errors) ==
    <<[head |-> "Configuration validation failed:"], [dash |-> "  - ", e |-> errors[1]]>>

FailedMessage(errors) ==
    <<[head |-> "Configuration validation failed:"]>>
        \o [i \in 1..Len(errors) |-> [dash |-> "  - ", e |-> errors[i]]]

validate(cls) ==
    LET warned == cls.TELEMETRY_ENABLED.v /\ ~Truthy(cls.HONEYCOMB_API_KEY)
        errors == Errors(cls)
    IN  IF errors # <<>>
        THEN [op |-> "validate", warned |-> warned,
              raised |-> "ValueError", msg |-> FailedMessage(errors)]
        ELSE [op |-> "validate", warned |-> warned, val |-> None]

(***************************************************************************)
(* Config.to_dict (lines 154-173).                                         *)
(***************************************************************************)
SensitiveWords == {<<"key">>, <<"secret">>, <<"password">>, <<"token">>}

IsSensitive(name) == \E w \in SensitiveWords : Contains(lower(NameStr(name)), w)

Redact_LengthOnly(value) ==
    IF value.t = "list" /\ value.v # <<>>
    THEN ListVal([i \in 1..Len(value.v) |-> <<"***REDACTED", i - 1, "***">>])
    ELSE value

Redact(value) ==
    IF value.t = "str" /\ value.v # <<>>
    THEN StrVal(<<"***REDACTED***">>)
    ELSE IF value.t = "list" /\ value.v # <<>>
    THEN ListVal([i \in 1..Len(value.v) |-> <<"***REDACTED", i - 1, "***">>])
    ELSE value

to_dict(cls) ==
    [key \in DOMAIN cls |-> IF IsSensitive(key) THEN Redact(cls[key]) ELSE cls[key]]

(***************************************************************************)
(* The environments explored: at most MaxEnvVars variables are set, each   *)
(* to one of a few strings.                                                *)
(***************************************************************************)
EnvValues(name) ==
    CASE name = "PROJECT_NAME" -> {<<"p1">>}
      [] name = "ENVIRONMENT" -> {<<"production">>, <<"prod">>}
      [] name = "API_PORT" ->
            {<<"1">>, <<"0">>, <<"6", "5", "5", "3", "5">>, <<"6", "5", "5", "3", "6">>,
             <<"-", "1">>, <<" ", "8", "0", " ">>, <<"http">>, <<>>}
      [] name = "API_WORKERS" -> {<<"1">>, <<"0">>, <<"4", ".", "0">>}
      [] name = "SECRET_KEY" -> {<<"sk1">>, <<"sk2">>}
      [] name = "API_TOKENS" ->
            {<<"t1">>, <<"t1", ",", "t2">>, <<" ", "t3", ",", ",", " ", "t4", " ">>,
             <<"\t", ",", " ">>, <<>>}
      [] name = "TELEMETRY_ENABLED" -> {<<"false">>, <<"True">>}
      [] name = "HONEYCOMB_API_KEY" -> {<<"hk1">>, <<"hk2">>}
      [] name = "MAX_FILE_SIZE_MB" ->
            {<<"1">>, <<"0">>, <<"1", "0", "0", "0">>, <<"1", "0", "0", "1">>}
      [] name = "ALLOWED_FILE_EXTENSIONS" ->
            {<<".", "py", ",", " ", ".", "js", ",", " ", ".", "ts", " ">>, <<",", ".", "py", ",">>, <<>>}
      [] name = "LOG_LEVEL" -> {<<"debug">>, <<"trace">>}
      [] name = "CACHE_TYPE" -> {<<"redis">>, <<"disk">>}
      [] name = "CACHE_REDIS_URL" -> {<<"redis://h">>, <<>>}

EnvsOver(S) == {env \in [S -> UNION {EnvValues(n) : n \in S}] :
                    \A n \in S : env[n] \in EnvValues(n)}

Environs ==
    UNION {EnvsOver(S) : S \in {T \in SUBSET Names : Cardinality(T) <= MaxEnvVars}}

Unloaded == [loaded |-> FALSE]

NoConfig ==
    /\ environ = <<>>
    /\ config = Unloaded
    /\ cfgRet = [op |-> "none"]

Loaded == "loaded" \notin DOMAIN config

(* import config: the class body runs once. *)
ConfigImport ==
    /\ ~Loaded
    /\ cfgRet.op = "none"
    /\ \E body \in {ClassBody(environ)} :
        IF "raised" \in DOMAIN body
        THEN /\ cfgRet' = [op |-> "import", raised |-> body.raised, at |-> body.at]
             /\ UNCHANGED config
        ELSE /\ cfgRet' = [op |-> "import", val |-> None]
             /\ config' = body.val
    /\ UNCHANGED <<environ, calls, now>>
    /\ UNCHANGED <<mailVars, procVars, coreVars>>

ConfigValidate ==
    /\ Loaded
    /\ cfgRet' = validate(config)
    /\ UNCHANGED <<environ, config, calls, now>>
    /\ UNCHANGED <<mailVars, procVars, coreVars>>

ConfigToDict ==
    /\ Loaded
    /\ cfgRet' = [op |-> "to_dict", val |-> to_dict(config)]
    /\ UNCHANGED <<environ, config, calls, now>>
    /\ UNCHANGED <<mailVars, procVars, coreVars>>

ConfigNext ==
    \/ ConfigImport
    \/ ConfigValidate
    \/ ConfigToDict

ConfigInit ==
    /\ now = 0 /\ MailInit /\ ProcDirEmpty /\ NoCalls
    /\ environ \in Environs
    /\ config = Unloaded
    /\ cfgRet = [op |-> "none"]
    /\ coreRet = [op |-> "none"]

ConfigSpec == ConfigInit /\ [][ConfigNext]_vars

(***************************************************************************)
(* example/core.py.  The arguments are Python ints, which have no bound;   *)
(* a quotient is a float, which has one: FloatMax stands for the largest   *)
(* finite float (sys.float_info.max, about 1.8e308), and the ints of the   *)
(* model are on that scale.  int / int raises OverflowError when the       *)
(* quotient is beyond it.  A float is kept as the fraction it stands for,  *)
(* in lowest terms; its rounding is not modelled.                          *)
(***************************************************************************)
FloatMax == 4

Numbers == (0 - MaxInt)..MaxInt

Abs(n) == IF n < 0 THEN 0 - n ELSE n

RECURSIVE Gcd(_, _)
Gcd(a, b) == IF b = 0 THEN a ELSE Gcd(b, a % b)

Float(num, den) ==
    LET g == Gcd(Abs(num), Abs(den))
        sign == IF den < 0 THEN 0 - 1 ELSE 1
    IN  [num |-> sign * (num \div g), den |-> sign * (den \div g)]

(* a / b of two ints, b # 0. *)
TrueDiv(a, b) ==
    IF Abs(a) > FloatMax * Abs(b)
    THEN [raised |-> "OverflowError", msg |-> "integer division result too large for a float"]
    ELSE [val |-> Float(a, b)]

divide(a, b) ==
    IF b = 0
    THEN [raised |-> "ValueError", msg |-> "Cannot divide by zero"]
    ELSE TrueDiv(a, b)

add(a, b) == [val |-> a + b]

NoCore == coreRet = [op |-> "none"]

Called(name, a, b, out) ==
    IF "raised" \in DOMAIN out
    THEN [op |-> name, a |-> a, b |-> b, raised |-> out.raised, msg |-> out.msg]
    ELSE [op |-> name, a |-> a, b |-> b, val |-> out.val]

CoreDivide(a, b) ==
    /\ coreRet' = Called("divide", a, b, divide(a, b))
    /\ UNCHANGED <<now, calls>>
    /\ UNCHANGED <<mailVars, procVars, cfgVars>>

CoreAdd(a, b) ==
    /\ coreRet' = Called("add", a, b, add(a, b))
    /\ UNCHANGED <<now, calls>>
    /\ UNCHANGED <<mailVars, procVars, cfgVars>>

CoreNext ==
    \/ \E a, b \in Numbers : CoreDivide(a, b)
    \/ \E a, b \in Numbers : CoreAdd(a, b)

Init == now = 0 /\ MailInit /\ ProcInit /\ NoCalls /\ NoConfig /\ NoCore

(* The mail server alone: the process server is never called. *)
MailServerInit == now = 0 /\ MailInit /\ ProcDirEmpty /\ NoCalls /\ NoConfig /\ NoCore

(* Both servers on empty directories. *)
ServersInit == now = 0 /\ MailInit /\ ProcDirEmpty /\ NoCalls /\ NoConfig /\ NoCore

CoreSpec == ServersInit /\ [][CoreNext]_vars

ConcSpec == ServersInit /\ [][ConcNext]_vars

(* The server on a filesystem that refuses a metadata write. *)
ProcFaultNext ==
    \/ ProcCalls
    \/ \E pid \in Pids : LeaderExits(pid)
    \/ \E in \in ProcInputs : ProcessStartSaveFails(in)

(* The server, processes that terminate by themselves, and time. *)
ProcClockNext ==
    \/ ProcCalls
    \/ \E pid \in Pids : LeaderExits(pid)
    \/ GraceWindowPasses

ProcSpec == Init /\ [][ProcNext]_vars

ProcClockSpec == Init /\ [][ProcClockNext]_vars

ProcLogsSpec == Init /\ [][ProcLogsNext]_vars

QuerySpec == Init /\ [][QueryNext]_vars

ProcFaultSpec == Init /\ [][ProcFaultNext]_vars

ProcReuseSpec == Init /\ [][ProcReuseNext]_vars

Next == MailNext \/ ProcNext

Spec == Init /\ [][Next]_vars

MailFaultNext ==
    \/ MailNext
    \/ \E id \in MsgIds : MailDeleteRefused(id)
    \/ \E in \in MailInputs : MailSendWriteFails(in)

(* The mail server on a directory whose files get damaged. *)
MailCorruptNext ==
    \/ \E in \in MailInputs : MailSend(in)
    \/ \E a \in Agents : MailInbox(a)
    \/ \E id \in MsgIds : MailDelete(id)
    \/ MailListAll
    \/ \E id \in MsgIds : FileCorrupted(id)

MailSpec == MailServerInit /\ [][MailNext]_vars

MailRaceSpec == MailServerInit /\ [][MailRaceNext]_vars

MailRewriteSpec == MailServerInit /\ [][MailRewriteNext]_vars

MailCorruptSpec == MailServerInit /\ [][MailCorruptNext]_vars

MailFaultSpec == MailServerInit /\ [][MailFaultNext]_vars

(***************************************************************************)
(* Properties of the mail server.  After every call mailRet holds the call *)
(* and its result, and mailFiles the directory the call left behind.       *)
(***************************************************************************)
Immutable(m) ==
    [id |-> m.id, from |-> m.from, to |-> m.to, subject |-> m.subject,
     body |-> m.body, timestamp |-> m.timestamp]

IsNotFound(val) == DOMAIN val = {"error"}

Deleted(files, issued, id) == id \in 1..issued /\ id \notin DOMAIN files

C1_Step ==
    \A id \in DOMAIN mailFiles' :
        IF id \in DOMAIN mailFiles
        THEN Immutable(mailFiles'[id]) = Immutable(mailFiles[id])
        ELSE /\ mailRet'.op = "mail_send"
             /\ mailRet'.val = id
             /\ Immutable(mailFiles'[id]) =
                    [id |-> id, from |-> mailRet'.args.from, to |-> mailRet'.args.to,
                     subject |-> mailRet'.args.subject, body |-> mailRet'.args.body,
                     timestamp |-> IsoFormat(now')]

\* C1: a message file is created only by mail_send, with the id, from, to,
\* subject, body and timestamp of that call, and no later call of any
\* operation changes one of these six fields of a stored message: read is
\* the only field of an existing message that ever changes.
C1_MessageFieldsImmutable == [][C1_Step]_vars

C1_Witness ==
    /\ mailRet.op = "mail_read"
    /\ mailRet.args \in DOMAIN mailFiles
    /\ mailFiles[mailRet.args].read
    /\ Cardinality(DOMAIN mailFiles) = 2

C5_Step ==
    /\ mailRet'.op = "mail_delete" =>
        IF mailRet'.args \in DOMAIN mailFiles
        THEN /\ mailRet'.val = TRUE
             /\ mailRet'.args \notin DOMAIN mailFiles'
        ELSE /\ mailRet'.val = FALSE
             /\ mailFiles' = mailFiles
    /\ \A id \in MsgIds :
        Deleted(mailFiles, mailIssued, id) => Deleted(mailFiles', mailIssued', id)
    /\ (mailRet'.op = "mail_read" /\ Deleted(mailFiles, mailIssued, mailRet'.args))
            => IsNotFound(mailRet'.val)
    /\ mailRet'.op \in {"mail_inbox", "mail_list_all"} =>
            \A i \in 1..Len(mailRet'.val) :
                ~Deleted(mailFiles, mailIssued, mailRet'.val[i].id)

C6_Step ==
    /\ (mailRet'.op = "mail_read" /\ mailRet'.args \in DOMAIN mailFiles) =>
            /\ mailRet'.args \in DOMAIN mailFiles'
            /\ mailFiles'[mailRet'.args].read
            /\ mailRet'.val.read
    /\ \A id \in DOMAIN mailFiles \cap DOMAIN mailFiles' :
            mailFiles[id].read => mailFiles'[id].read
    /\ mailRet'.op \in {"mail_inbox", "mail_list_all"} =>
            \A i \in 1..Len(mailRet'.val) :
                LET id == mailRet'.val[i].id
                IN  (id \in DOMAIN mailFiles /\ mailFiles[id].read) => mailRet'.val[i].read

\* C6: mail_read of a stored message stores read = true for it and returns
\* it with read = true; a stored read flag that is true stays true while
\* the message exists; mail_inbox and mail_list_all report read = true for
\* every message whose stored flag is true.
C6_ReadFlagMonotone == [][C6_Step]_vars

C6_Witness ==
    /\ mailRet.op = "mail_inbox"
    /\ \E i \in 1..Len(mailRet.val) : mailRet.val[i].read
    /\ \E i \in 1..Len(mailRet.val) : ~mailRet.val[i].read

AfterOneSend ==
    /\ mailIssued = 1
    /\ DOMAIN mailFiles = {1}
    /\ ~mailFiles[1].read

\* C7: after one mail_send into an empty store, the send returned the id of
\* the one stored message, which holds the arguments of the send; then
\* mail_inbox(r) returns exactly one summary (that id, the message's from,
\* subject and timestamp, read = false) for every r that occurs in
\* to_agents, once or more often, and the empty list for every other name.
C7_InboxAfterSend ==
    /\ (mailRet.op = "mail_send" /\ mailIssued = 1) =>
            /\ DOMAIN mailFiles = {mailRet.val}
            /\ mailFiles[mailRet.val] =
                    [id |-> mailRet.val, from |-> mailRet.args.from,
                     to |-> mailRet.args.to, subject |-> mailRet.args.subject,
                     body |-> mailRet.args.body, timestamp |-> IsoFormat(now),
                     read |-> FALSE]
    /\ (mailRet.op = "mail_inbox" /\ AfterOneSend) =>
            LET m == mailFiles[1]
            IN  IF \E i \in 1..Len(m.to) : m.to[i] = mailRet.args
                THEN mailRet.val = <<[id |-> 1, from |-> m.from, subject |-> m.subject,
                                      timestamp |-> m.timestamp, read |-> FALSE]>>
                ELSE mailRet.val = <<>>

C7_Witness ==
    /\ mailRet.op = "mail_inbox"
    /\ AfterOneSend
    /\ Len(mailFiles[1].to) = 2
    /\ mailFiles[1].to[1] # mailRet.args
    /\ mailFiles[1].to[2] = mailRet.args
    /\ Len(mailRet.val) = 1

(***************************************************************************)
(* Properties of the process server.  After every finished call procRet    *)
(* holds the call and its result; a step is compared with the directory    *)
(* and the process table it started from.                                  *)
(***************************************************************************)
(* The status a record with this pid has for the OS. *)
EffectiveStatus(os, pid) ==
    IF pid = NoPid THEN "unknown"
    ELSE IF os[pid].leader \in {"gone", "denied"} THEN "stopped"
    ELSE "running"

(* The step is a process_list, process_stop or process_restart returning. *)
ListReturns == procRet'.op = "process_list" /\ procRet' # procRet

StopReturns ==
    /\ procRet'.op = "process_stop"
    /\ procPc' = Idle
    /\ procRet' # procRet \/ procPc # Idle

RestartReturns ==
    /\ procRet'.op = "process_restart"
    /\ procPc' = Idle
    /\ procRet' # procRet \/ procPc # Idle \/ procIssued' # procIssued

C2_Step ==
    ListReturns =>
        \A i \in 1..Len(procRet'.val) :
            LET entry == procRet'.val[i]
            IN  /\ entry.id \in DOMAIN procFiles
                /\ entry.pid = procFiles[entry.id].pid
                /\ entry.status = EffectiveStatus(osProcs, entry.pid)

\* C2: every entry process_list returns belongs to a stored record and has
\* the status that the record's pid has for the OS at the time of the call:
\* 'unknown' without a pid, 'running' when the signal-0 probe of the pid
\* succeeds, 'stopped' when it fails (no such process, or not permitted),
\* whatever status the file holds.
C2_ListStatusIsProbed == [][C2_Step]_vars

C2_Witness ==
    /\ procRet.op = "process_list"
    /\ \E i \in 1..Len(procRet.val) :
        LET entry == procRet.val[i]
        IN  /\ entry.status = "stopped"
            /\ procFiles[entry.id].status = "running"
            /\ osProcs[entry.pid].leader = "denied"
    /\ \E i \in 1..Len(procRet.val) :
        LET entry == procRet.val[i]
        IN  /\ entry.status = "running"
            /\ procFiles[entry.id].status = "stopped"
    /\ \E i \in 1..Len(procRet.val) : procRet.val[i].status = "unknown"

(* The step is process_stop coming back from time.sleep. *)
StopWakesUp ==
    /\ procPc # Idle
    /\ procPc.op = "process_stop"
    /\ procPc' = Idle

C3_Step ==
    /\ (\E i \in 1..Len(sigLog') : sigLog'[i].sig = "SIGKILL") =>
            /\ sigLog'[1].sig = "SIGTERM"
            /\ sigLog'[Len(sigLog')].sig = "SIGKILL"
    /\ StopWakesUp =>
            LET pid == procPc.data.pid
                term == [sig |-> "SIGTERM", leader |-> sigLog[1].leader]
                probe == [sig |-> "0", leader |-> osProcs[pid].leader]
                kill == [sig |-> "SIGKILL", leader |-> osProcs[pid].leader]
            IN  /\ sigLog = <<term>>
                /\ now' >= procPc.since + GraceSeconds * TicksPerSec
                /\ sigLog' = IF osProcs[pid].leader = "alive"
                             THEN <<term, probe, kill>>
                             ELSE <<term, probe>>

\* C3: a process_stop call on a record with a pid sends the graceful signal
\* to the group first, comes back from the sleep no sooner than 2 seconds
\* later, probes the pid then, and sends the forceful signal to the group
\* if and only if the process is still alive at that moment: never without
\* the graceful signal before it in the same call, and never when the
\* process has exited within the grace window.
C3_KillOnlyIfStillAlive == [][C3_Step]_vars

\* C4: when process_stop has returned true for a record, no process of the
\* group that the record's process_start created is running any more:
\* neither the group leader nor a child the command spawned, whether or not
\* the leader had exited before or during the stop.
C4_StopTerminatesGroup ==
    (/\ procRet.op = "process_stop"
     /\ procRet.val = TRUE
     /\ procPc = Idle
     /\ procRet.args \in DOMAIN procFiles) =>
        LET pid == procFiles[procRet.args].pid
        IN  /\ osProcs[pid].leader # "alive"
            /\ ~osProcs[pid].kids

(* The fields process_restart hands over to the new process. *)
Carried(p) == [command |-> p.command, cwd |-> p.cwd, name |-> p.name, owner |-> p.owner]

C8_Step ==
    /\ (RestartReturns /\ procRet'.val = TRUE) =>
            LET id == procRet'.args
                created == DOMAIN procFiles' \ DOMAIN procFiles
            IN  /\ Cardinality(created) = 1
                /\ DOMAIN procFiles \subseteq DOMAIN procFiles'
                /\ \A new \in created :
                    /\ new # id
                    /\ new \notin 0..procIssued
                    /\ procFiles'[new].id = new
                    /\ Carried(procFiles'[new]) = Carried(procFiles[id])
                /\ procFiles'[id].status = "stopped"
    /\ \A id \in DOMAIN procFiles :
            procFiles[id].status = "stopped" =>
                \/ id \in DOMAIN procFiles' /\ procFiles'[id].status = "stopped"
                \/ procRet'.op = "process_cleanup"

\* C8: when process_restart(id) returns true, exactly one record has been
\* added and none removed; the new record's identifier is neither id nor
\* any identifier issued before, and its command, cwd, name and owner are
\* those of the original; the original is stored with status 'stopped',
\* and a record stored as 'stopped' stays so until a process_cleanup
\* removes it.
C8_RestartMakesOneNewRecord == [][C8_Step]_vars

C8_Witness ==
    /\ procRet = [op |-> "process_restart", args |-> 1, val |-> TRUE]
    /\ procPc = Idle
    /\ DOMAIN procFiles = {1, 2}
    /\ procFiles[1].status = "stopped"
    /\ procFiles[2].status = "running"
    /\ Carried(procFiles[2]) = Carried(procFiles[1])
    /\ Len(sigLog) = 3

(* The step is a process_cleanup or a process_logs returning. *)
CleanupReturns ==
    /\ procRet'.op = "process_cleanup"
    /\ procRet' # procRet \/ procFiles' # procFiles

LogsReturns == procRet'.op = "process_logs" /\ procRet' # procRet

(* The server has spawned a process for id, and id has no record any more. *)
CleanedUp(files, os, id) ==
    /\ id \notin DOMAIN files
    /\ \E pid \in 1..Len(os) : os[pid].log = id

C9_Step ==
    /\ CleanupReturns =>
            /\ DOMAIN procFiles' \subseteq DOMAIN procFiles
            /\ \A id \in DOMAIN procFiles :
                IF EffectiveStatus(osProcs, procFiles[id].pid) = "stopped"
                THEN id \notin DOMAIN procFiles'
                ELSE id \in DOMAIN procFiles' /\ procFiles'[id] = procFiles[id]
    /\ \A id \in DOMAIN logFiles :
            /\ id \in DOMAIN logFiles'
            /\ SubSeq(logFiles'[id], 1, Len(logFiles[id])) = logFiles[id]
    /\ (LogsReturns /\ CleanedUp(procFiles, osProcs, procRet'.args.process_id)) =>
            LET all_lines == logFiles[procRet'.args.process_id]
                lines == procRet'.args.lines
                n == IF lines > 0 /\ lines < Len(all_lines) THEN lines ELSE Len(all_lines)
            IN  /\ DOMAIN procRet'.val = {"log"}
                /\ Len(procRet'.val.log) = n
                /\ \A k \in 1..n :
                    procRet'.val.log[k] = all_lines[Len(all_lines) - n + k]

\* C9: process_cleanup removes the metadata of exactly the records whose
\* pid the OS reports as not running at the time of the call (effective
\* status 'stopped') and leaves every other record, 'running' or 'unknown',
\* as it is; no step removes a log file or a line of it; process_logs of a
\* process whose record has been cleaned up returns the lines of its log.
C9_CleanupKeepsLogs == [][C9_Step]_vars

C9_Witness ==
    /\ procRet.op = "process_logs"
    /\ procRet.args.lines = 1
    /\ CleanedUp(procFiles, osProcs, procRet.args.process_id)
    /\ DOMAIN procRet.val = {"log"}
    /\ Len(procRet.val.log) = 1
    /\ \E id \in DOMAIN procFiles : procFiles[id].pid = NoPid
    /\ \E id \in DOMAIN procFiles :
        /\ procFiles[id].status = "stopped"
        /\ EffectiveStatus(osProcs, procFiles[id].pid) = "running"

C10_Step ==
    /\ StopReturns =>
            LET process_data == load_process(procFiles, procRet'.args)
            IN  (process_data # <<>> /\ process_data.pid # NoPid) =>
                    /\ procRet'.val = TRUE
                    /\ procRet'.args \in DOMAIN procFiles'
                    /\ procFiles'[procRet'.args].status = "stopped"
    /\ (procPc = Idle /\ procPc' # Idle /\ procPc'.op = "process_stop") =>
            /\ procPc'.id \in DOMAIN procFiles
            /\ procFiles[procPc'.id].pid # NoPid
            /\ procFiles' = procFiles

\* C10: every process_stop of a record that exists and has a pid returns
\* true and leaves the record stored with status 'stopped': when the group
\* was signalled and the call slept through the grace window (the process
\* terminated by the stop, or gone by itself within the window), and when
\* signalling failed because the OS process no longer existed, in which
\* case the call returns at once and no error comes out of it.
C10_StopAlwaysSucceeds == [][C10_Step]_vars

C10_Witness ==
    /\ procRet.op = "process_stop"
    /\ procRet.val = TRUE
    /\ procPc = Idle
    /\ sigLog = <<>>
    /\ procRet.args \in DOMAIN procFiles
    /\ procFiles[procRet.args].status = "stopped"
    /\ osProcs[procFiles[procRet.args].pid].leader = "gone"

C11_Step ==
    /\ (/\ StopReturns \/ RestartReturns
        /\ procRet'.args \notin DOMAIN procFiles) =>
            /\ procRet'.val = FALSE
            /\ procPc = Idle
            /\ sigLog' = <<>>
            /\ <<procFiles, logFiles, osProcs, procIssued>>' =
                    <<procFiles, logFiles, osProcs, procIssued>>
    /\ (/\ StopReturns
        /\ procRet'.args \in DOMAIN procFiles
        /\ procFiles[procRet'.args].pid = NoPid) =>
            /\ procRet'.val = FALSE
            /\ procPc = Idle
            /\ sigLog' = <<>>
            /\ <<procFiles, logFiles, osProcs, procIssued>>' =
                    <<procFiles, logFiles, osProcs, procIssued>>

\* C11: process_stop and process_restart of an identifier that has no
\* record, and process_stop of a record without a pid, return false at
\* once: no signal is sent, no process is spawned (the process table and
\* the count of issued identifiers are as before) and every metadata and
\* log file is as it was.
C11_NothingToStop == [][C11_Step]_vars

C11_Witness ==
    /\ procRet.op = "process_restart"
    /\ procRet.val = FALSE
    /\ procRet.args \notin DOMAIN procFiles
    /\ procRet.args \in 1..procIssued
    /\ sigLog = <<>>
    /\ \E pid \in Pids : osProcs[pid].leader = "alive"
    /\ \E id \in DOMAIN procFiles : procFiles[id].pid = NoPid

(* The step is a process_start returning. *)
StartReturns ==
    /\ procRet'.op = "process_start"
    /\ procRet' # procRet \/ procIssued' # procIssued

(* The processes the step spawned that are running after it. *)
SpawnedAndRunning ==
    {pid \in 1..Len(osProcs') : pid > Len(osProcs) /\ osProcs'[pid].leader = "alive"}

C12_Step ==
    StartReturns =>
        IF StartsWithError(procRet'.val)
        THEN /\ procFiles' = procFiles
             /\ SpawnedAndRunning = {}
        ELSE \E id \in DOMAIN procFiles' \ DOMAIN procFiles :
                /\ procRet'.val = IdStr(id)
                /\ id \notin 0..procIssued
                /\ DOMAIN procFiles' = DOMAIN procFiles \cup {id}
                /\ \A other \in DOMAIN procFiles : procFiles'[other] = procFiles[other]
                /\ procFiles'[id].id = id
                /\ Carried(procFiles'[id]) = procRet'.args
                /\ procFiles'[id].status = "running"
                /\ SpawnedAndRunning = {procFiles'[id].pid}

\* C12: every process_start call either returns an identifier never issued
\* before, and then exactly one record has been added, with that
\* identifier, the command, cwd, name and owner of the call, status
\* 'running' and the pid of the one process the call spawned; or it
\* returns an error string, and then no record has been written and no
\* process that the call spawned is running.
C12_StartAllOrNothing == [][C12_Step]_vars

\* C13: no call of a tool of the mail server or of the process server ends
\* with an exception: whatever file read, file write, file removal or
\* signal delivery fails during it, the call returns a result.
C13_NoExceptionEscapes ==
    /\ "raised" \notin DOMAIN mailRet
    /\ "raised" \notin DOMAIN procRet

C14_Step ==
    ListReturns =>
        \A i \in 1..Len(procRet'.val) :
            LET entry == procRet'.val[i]
            IN  (/\ entry.pid # NoPid
                 /\ "past_grace" \in DOMAIN osProcs[entry.pid]
                 /\ procFiles[entry.id].status = "running") =>
                    entry.status = "stopped"

\* C14: when a started process has terminated by itself or by a signal
\* from outside, and a grace window has gone by since, every process_list
\* reports its record with status 'stopped', although no process_stop was
\* called for it (the record is still stored as 'running').
C14_ExitShowsAsStopped == [][C14_Step]_vars

(* The identifiers of the model are issued in the order of creation. *)
NewestFirst(result, stamp(_)) ==
    \A i, j \in 1..Len(result) :
        (i < j /\ stamp(result[i]) # stamp(result[j])) =>
            result[i].id > result[j].id

\* C15: in every result of mail_inbox, mail_list_all and process_list, of
\* two entries with different timestamps the one created later is listed
\* before the one created earlier.
C15_ListingsNewestFirst ==
    /\ mailRet.op \in {"mail_inbox", "mail_list_all"} =>
            LET timestamp(e) == e.timestamp IN NewestFirst(mailRet.val, timestamp)
    /\ procRet.op = "process_list" =>
            LET started_at(e) == e.started_at IN NewestFirst(procRet.val, started_at)

InboxReturns == mailRet'.op = "mail_inbox" /\ mailRet' # mailRet

ListAllReturns == mailRet'.op = "mail_list_all" /\ mailRet' # mailRet

Intact(files) == {id \in DOMAIN files : DOMAIN files[id] = MessageKeys}

C16_Step ==
    /\ InboxReturns =>
        /\ "raised" \notin DOMAIN mailRet'
        /\ {mailRet'.val[i].id : i \in 1..Len(mailRet'.val)} =
                {id \in Intact(mailFiles) : mailRet'.args \in Range(mailFiles[id].to)}
    /\ ListAllReturns =>
        /\ "raised" \notin DOMAIN mailRet'
        /\ {mailRet'.val[i].id : i \in 1..Len(mailRet'.val)} = Intact(mailFiles)

\* C16: whatever files of the mail directory are corrupted (do not parse,
\* or parse to an incomplete record), mail_inbox and mail_list_all complete
\* without an exception and return exactly the intact messages (for
\* mail_inbox: the intact messages addressed to the agent).
C16_CorruptFilesAreLeftOut == [][C16_Step]_vars

(***************************************************************************)
(* Properties of calls that overlap.                                       *)
(***************************************************************************)
Sent(c) ==
    /\ calls[c].pc = "returned"
    /\ calls[c].op = "mail_send"

Started(c) ==
    /\ calls[c].pc = "returned"
    /\ calls[c].op = "process_start"
    /\ ~StartsWithError(calls[c].val)

\* C17: of the mail_send calls (and of the process_start calls) that
\* overlap, every one that has returned an identifier returned one that no
\* other such call returned, and its file holds, complete, exactly the
\* record that call built from its own arguments, timestamp and (for a
\* process) pid and log, whatever the other calls did in between.
C17_OverlappingCallsIndependent ==
    /\ \A c \in Callers : Sent(c) =>
        /\ calls[c].val \in DOMAIN mailFiles
        /\ mailFiles[calls[c].val] = Message(calls[c])
        /\ \A d \in Callers \ {c} : Sent(d) => calls[d].val # calls[c].val
    /\ \A c \in Callers : Started(c) =>
        /\ calls[c].id \in DOMAIN procFiles
        /\ procFiles[calls[c].id] = ProcessData(calls[c])
        /\ calls[c].id \in DOMAIN logFiles
        /\ osProcs[calls[c].pid].log = calls[c].id
        /\ \A d \in Callers \ {c} : Started(d) =>
            /\ calls[d].val # calls[c].val
            /\ calls[d].pid # calls[c].pid

(* A send has returned while another one, which began before it, is still
   between opening its file and writing it. *)
C17_Witness ==
    \E c, d \in Callers :
        /\ Sent(c)
        /\ calls[d].pc = "opened"
        /\ calls[d].op = "mail_send"
        /\ calls[d].id < calls[c].id

(***************************************************************************)
(* Properties of the configuration.  cfgRet holds the latest operation and *)
(* what it returned or raised; config does not change once it is loaded.   *)
(***************************************************************************)
ViolatedRules(cls) ==
    {rule \in {"API_PORT", "API_WORKERS", "ENVIRONMENT", "LOG_LEVEL",
               "MAX_FILE_SIZE_MB", "CACHE_TYPE", "CACHE_REDIS_URL"} :
        CASE rule = "API_PORT" -> cls.API_PORT.v \notin 1..65535
          [] rule = "API_WORKERS" -> cls.API_WORKERS.v < 1
          [] rule = "ENVIRONMENT" -> cls.ENVIRONMENT.v \notin valid_environments
          [] rule = "LOG_LEVEL" -> cls.LOG_LEVEL.v \notin valid_log_levels
          [] rule = "MAX_FILE_SIZE_MB" -> cls.MAX_FILE_SIZE_MB.v \notin 1..1000
          [] rule = "CACHE_TYPE" -> cls.CACHE_TYPE.v \notin valid_cache_types
          [] rule = "CACHE_REDIS_URL" ->
                /\ cls.CACHE_TYPE.v = <<"redis">>
                /\ cls.CACHE_REDIS_URL \in {None, StrVal(<<>>)}}

\* C18: Config.validate raises if and only if at least one of the seven
\* constraints is violated; the message of the one error it raises is the
\* heading followed by one line per violated rule, each with the dash
\* prefix, and by no line for a rule that holds; the telemetry warning
\* alone does not make it raise.
C18_ValidateReportsAllViolations ==
    cfgRet.op = "validate" =>
        LET violated == ViolatedRules(config)
        IN  /\ ("raised" \in DOMAIN cfgRet) <=> (violated # {})
            /\ ("raised" \in DOMAIN cfgRet) =>
                /\ Len(cfgRet.msg) = 1 + Cardinality(violated)
                /\ DOMAIN cfgRet.msg[1] = {"head"}
                /\ \A i \in 2..Len(cfgRet.msg) :
                    /\ cfgRet.msg[i].dash = "  - "
                    /\ cfgRet.msg[i].e.rule \in violated
                /\ {cfgRet.msg[i].e.rule : i \in 2..Len(cfgRet.msg)} = violated

C18_Witness ==
    /\ cfgRet.op = "validate"
    /\ "raised" \in DOMAIN cfgRet
    /\ Len(cfgRet.msg) = 3
    /\ cfgRet.warned

SensitiveNames == {"SECRET_KEY", "API_TOKENS", "HONEYCOMB_API_KEY"}

OtherSecrets == {<<"x1">>, <<"x2">>}

(* The values of the type, emptiness and length of the given one. *)
SameShape(value) ==
    IF value.t = "str" /\ value.v # <<>>
    THEN {StrVal(x) : x \in OtherSecrets}
    ELSE IF value.t = "list"
    THEN {ListVal(l) : l \in [1..Len(value.v) -> OtherSecrets]}
    ELSE {value}

SameButSecrets(cls) ==
    {[cls EXCEPT !.SECRET_KEY = a, !.API_TOKENS = b, !.HONEYCOMB_API_KEY = c] :
        a \in SameShape(cls.SECRET_KEY),
        b \in SameShape(cls.API_TOKENS),
        c \in SameShape(cls.HONEYCOMB_API_KEY)}

\* C19: in the mapping Config.to_dict returns, a setting whose name has
\* 'key', 'secret', 'password' or 'token' in it appears as the fixed marker
\* when it is a non-empty string and as n numbered markers when it is a
\* list of n > 0 elements; every other setting appears with its value;
\* and every configuration that differs from this one only in the contents
\* of such values is exported as the same mapping.
C19_ExportHidesSecrets ==
    cfgRet.op = "to_dict" =>
        /\ DOMAIN cfgRet.val = Names
        /\ \A n \in Names \ SensitiveNames : cfgRet.val[n] = config[n]
        /\ \A n \in SensitiveNames :
            /\ (config[n].t = "str" /\ config[n].v # <<>>) =>
                    cfgRet.val[n] = StrVal(<<"***REDACTED***">>)
            /\ (config[n].t = "list" /\ config[n].v # <<>>) =>
                    /\ Len(cfgRet.val[n].v) = Len(config[n].v)
                    /\ \A i \in 1..Len(config[n].v) :
                            cfgRet.val[n].v[i] = <<"***REDACTED", i - 1, "***">>
        /\ \A other \in SameButSecrets(config) : to_dict(other) = cfgRet.val

C19_Witness ==
    /\ cfgRet.op = "to_dict"
    /\ config.SECRET_KEY.v # <<>>
    /\ Len(config.API_TOKENS.v) = 2
    /\ config.PROJECT_NAME.v = <<"p1">>

\* C20: importing the configuration never raises, whatever strings the
\* environment variables of the settings hold.
C20_LoadNeverRaises ==
    cfgRet.op = "import" => "raised" \notin DOMAIN cfgRet

C21_Step ==
    LogsReturns =>
        LET id == procRet'.args.process_id
            lines == procRet'.args.lines
        IN  IF id \notin DOMAIN logFiles
            THEN /\ DOMAIN procRet'.val = {"text", "id"}
                 /\ procRet'.val.id = id
            ELSE LET all_lines == logFiles[id]
                     n == Len(all_lines)
                     count == IF lines <= 0 THEN n ELSE IF lines < n THEN lines ELSE n
                 IN  procRet'.val = [log |-> [i \in 1..count |-> all_lines[n - count + i]]]

ListSettings == {"API_TOKENS", "ALLOWED_FILE_EXTENSIONS"}

Cuts(s) == {0, Len(s) + 1} \cup {i \in 1..Len(s) : s[i] = ","}

(* The k-th cut from the left, k = 1, 2, ... *)
Cut(s, k) == CHOOSE c \in Cuts(s) : Cardinality({d \in Cuts(s) : d < c}) = k - 1

Trimmed(s, from, to) ==
    LET inked == {i \in from..to : s[i] \notin {" ", "\t"}}
    IN  IF inked = {} THEN <<>>
        ELSE SubSeq(s, CHOOSE i \in inked : \A j \in inked : i <= j,
                       CHOOSE i \in inked : \A j \in inked : j <= i)

Segments(s) ==
    [k \in 1..(Cardinality(Cuts(s)) - 1) |-> Trimmed(s, Cut(s, k) + 1, Cut(s, k + 1) - 1)]

(* l is what is left of segs when its empty segments are taken out. *)
IsFilterOf(l, segs) ==
    LET kept == {k \in 1..Len(segs) : segs[k] # <<>>}
    IN  /\ Len(l) = Cardinality(kept)
        /\ \A k \in kept : l[Cardinality({j \in kept : j <= k})] = segs[k]

SourceOf(name) ==
    IF name \in DOMAIN environ THEN environ[name]
    ELSE IF name = "API_TOKENS" THEN <<>> ELSE DefaultExtensions

\* C22: once the configuration is loaded, API_TOKENS and
\* ALLOWED_FILE_EXTENSIONS are the comma-separated segments of their source
\* string, each trimmed of the whitespace around it, in the order of the
\* source, without the segments that are empty after trimming; the empty
\* source gives the empty list; no element is empty or begins or ends with
\* whitespace.
C22_CommaListsTrimmed ==
    Loaded =>
        \A name \in ListSettings :
            LET loaded == config[name].v
            IN  /\ config[name].t = "list"
                /\ IsFilterOf(loaded, Segments(SourceOf(name)))
                /\ SourceOf(name) = <<>> => loaded = <<>>
                /\ \A i \in 1..Len(loaded) :
                    /\ loaded[i] # <<>>
                    /\ loaded[i][1] \notin {" ", "\t"}
                    /\ loaded[i][Len(loaded[i])] \notin {" ", "\t"}

C22_Witness ==
    /\ Loaded
    /\ "API_TOKENS" \in DOMAIN environ
    /\ environ.API_TOKENS = <<" ", "t3", ",", ",", " ", "t4", " ">>
    /\ config.API_TOKENS.v = << <<"t3">>, <<"t4">> >>
    /\ "ALLOWED_FILE_EXTENSIONS" \in DOMAIN environ
    /\ Len(config.ALLOWED_FILE_EXTENSIONS.v) = 3

\* C23: divide(a, b) raises if and only if b = 0, and what it raises then
\* is the ValueError with the message 'Cannot divide by zero'; for every
\* other b it returns the quotient: the value q with q * b = a.
C23_DivideFailsOnlyOnZero ==
    coreRet.op = "divide" =>
        /\ ("raised" \in DOMAIN coreRet) <=> (coreRet.b = 0)
        /\ ("raised" \in DOMAIN coreRet) =>
                /\ coreRet.raised = "ValueError"
                /\ coreRet.msg = "Cannot divide by zero"
        /\ ("val" \in DOMAIN coreRet) =>
                coreRet.val.num * coreRet.b = coreRet.a * coreRet.val.den

(***************************************************************************)
(* Properties of mail_read and mail_delete calls that overlap.             *)
(***************************************************************************)
Returned(c, op) == calls[c].pc = "returned" /\ calls[c].op = op

\* C24: when a mail_delete and a mail_read of the same id have both
\* returned, and the mail_delete returned true, no file of that id is
\* stored, and the mail_read returned the whole message or the not-found
\* payload.
C24_DeletionIsFinal ==
    \A c, d \in Callers :
        (/\ Returned(c, "mail_delete")
         /\ calls[c].val
         /\ Returned(d, "mail_read")
         /\ calls[d].args = calls[c].args) =>
            /\ calls[c].args \notin DOMAIN mailFiles
            /\ \/ IsNotFound(calls[d].val)
               \/ DOMAIN calls[d].val = MessageKeys

(* A mail_read has just done its load_message. *)
ReadLoaded(c) ==
    /\ CanCall(c)
    /\ calls'[c] # calls[c]
    /\ calls'[c].op = "mail_read"

C25_Step ==
    /\ ListAllReturns =>
        /\ "val" \in DOMAIN mailRet'
        /\ 1..mailIssued \subseteq {mailRet'.val[i].id : i \in 1..Len(mailRet'.val)}
    /\ \A c \in Callers :
        (ReadLoaded(c) /\ calls'[c].args \in 1..mailIssued) =>
            calls'[c].pc = "loaded"

\* C25: where no message is ever deleted, every mail_list_all returns all
\* the messages sent so far, and every mail_read of the id of a sent
\* message finds the message, also when it runs while another mail_read of
\* that id is between opening the file for writing and having written it.
C25_SentMessagesStayVisible == [][C25_Step]_vars

(* The process_stop inside the restart that returns in this step failed:
   the record is missing or has no pid. *)
StopFailed(id) == procPc = Idle /\ (id \notin DOMAIN procFiles \/ procFiles[id].pid = NoPid)

C26_Step ==
    RestartReturns =>
        LET id == procRet'.args
        IN  /\ StopFailed(id) =>
                /\ procRet'.val = FALSE
                /\ <<procFiles, logFiles, osProcs>>' = <<procFiles, logFiles, osProcs>>
            /\ (~StopFailed(id) /\ DOMAIN procFiles' = DOMAIN procFiles) =>
                procRet'.val = FALSE
            /\ (~StopFailed(id) /\ procRet'.val = FALSE) =>
                /\ procFiles'[id].status = "stopped"
                /\ DOMAIN procFiles' = DOMAIN procFiles
                /\ Len(osProcs') = Len(osProcs)

\* C26: process_restart(id) returns false and spawns nothing and writes
\* nothing when the stop fails (no record, or a record without a pid);
\* when the stop succeeds and the start adds no record, it returns false;
\* and when it returns false after a stop that succeeded, the original is
\* stored with status 'stopped', no record has been added and no process
\* has been spawned.
C26_RestartFailures == [][C26_Step]_vars

(* A restart has signalled the process and returned false: its start
   failed, leaving a log file without a record. *)
C26_Witness ==
    /\ procRet.op = "process_restart"
    /\ procRet.val = FALSE
    /\ procPc = Idle
    /\ sigLog # <<>>
    /\ procRet.args \in DOMAIN procFiles
    /\ procFiles[procRet.args].status = "stopped"
    /\ procIssued \in DOMAIN logFiles
    /\ procIssued \notin DOMAIN procFiles
    /\ Len(osProcs) < procIssued

ReadReturns == mailRet'.op = "mail_read" /\ mailRet' # mailRet

C27_Step ==
    /\ (InboxReturns \/ ListAllReturns) => mailFiles' = mailFiles
    /\ (ReadReturns /\ mailRet'.args \notin DOMAIN mailFiles) => mailFiles' = mailFiles
    /\ (ListReturns \/ LogsReturns) => <<procFiles, logFiles>>' = <<procFiles, logFiles>>

\* C27: mail_inbox and mail_list_all leave every message file as it was,
\* read flag included; a mail_read of an id that has no file leaves the
\* directory as it was; process_list and process_logs leave every metadata
\* file and every log file as it was, so the status process_list recomputes
\* is not stored.
C27_QueriesChangeNothing == [][C27_Step]_vars

(* process_list has reported as stopped a process whose record says
   running, and the read of an id without a file has happened with an
   unread message stored. *)
C27_Witness ==
    /\ procRet.op = "process_list"
    /\ \E i \in 1..Len(procRet.val) :
        /\ procRet.val[i].status = "stopped"
        /\ procFiles[procRet.val[i].id].status = "running"
    /\ mailRet.op = "mail_read"
    /\ mailRet.args \notin DOMAIN mailFiles
    /\ \E id \in DOMAIN mailFiles : ~mailFiles[id].read

C28_Step ==
    CleanupReturns =>
        LET removed == DOMAIN procFiles \ DOMAIN procFiles'
        IN  /\ procRet'.val.cleaned_processes = Cardinality(removed)
            /\ procRet'.val.remaining_processes = Cardinality(DOMAIN procFiles')
            /\ procRet'.val.cleaned_processes + procRet'.val.remaining_processes =
                    Cardinality(DOMAIN procFiles)

\* C28: in the result of process_cleanup, cleaned_processes is the number
\* of metadata files the call removed, remaining_processes the number of
\* records stored after it, and the two add up to the number of records
\* stored before it.
C28_CleanupCountsEveryRecord == [][C28_Step]_vars

(* A cleanup has removed records and left others. *)
C28_Witness ==
    /\ procRet.op = "process_cleanup"
    /\ procRet.val.cleaned_processes >= 1
    /\ procRet.val.remaining_processes = 2
    /\ Cardinality(DOMAIN procFiles) = 2
    /\ \E id \in DOMAIN procFiles : procFiles[id].pid = NoPid

(* What the pid of a record stands for while it is the process that the
   process_start of the record spawned, running or terminated. *)
OwnProcess == {"alive", "zombie"}

C29_Step ==
    /\ \A i \in 1..Len(sigLog') :
            sigLog'[i].sig \in {"SIGTERM", "SIGKILL"} => sigLog'[i].leader \in OwnProcess
    /\ ListReturns =>
            \A i \in 1..Len(procRet'.val) :
                (procRet'.val[i].status = "running") =>
                    osProcs[procRet'.val[i].pid].leader \in OwnProcess

\* C29: every SIGTERM and SIGKILL that process_stop and process_restart
\* send reaches the process group that the process_start of the record
\* spawned, also after that process has exited and its pid has been given
\* to an unrelated process; and process_list reports a record as 'running'
\* only when the process behind its pid is the one spawned for it.
C29_SignalsReachOwnGroupOnly == [][C29_Step]_vars

====
